---- MODULE Spec2Model ----
(***************************************************************************)
(* Model of the TLB copy/clear command-list encoder of the v3dv Vulkan     *)
(* driver (src/broadcom/vulkan/v3dv_meta_copy.c).                          *)
(*                                                                         *)
(* A job owns three command lists (bcl, rcl, indirect).  Every tiled       *)
(* operation (image->buffer, buffer->image, image->image, image clear,     *)
(* buffer copy, buffer fill) opens a job, starts a frame, emits the render *)
(* control list (prologue, per-layer frame setup, per-tile list, supertile *)
(* coordinates, END_OF_RENDERING) and finishes the job.  The model follows *)
(* the call structure of the source: one action per emitter function, the  *)
(* position in the calling function kept in pc.                            *)
(***************************************************************************)
EXTENDS Integers, Sequences, FiniteSets, TLC

VARIABLES
    pc,        \* position in the running command ("idle" when none runs)
    cmd,       \* the arguments of the running command
    job,       \* the open job (NoJob when none)
    fb,        \* struct framebuffer_data of the open job
    layer,     \* loop variable of the emit_*_rcl layer loops
    iter,      \* loop variables of the orchestrator (level/layer, or items/offsets)
    finished,  \* the jobs handed to v3dv_cmd_buffer_finish_job, in order
    meta,      \* device->meta: the meta mutex and the blit pipeline cache
    callers,   \* the threads that call get_blit_pipeline, and where each stands
    bit        \* the sweep of the instruction packing tests (bit_fmod, bit_fma)

vars == <<pc, cmd, job, fb, layer, iter, finished, meta, callers, bit>>

\* the state the command encoder does not touch
other_vars == <<meta, callers, bit>>

----------------------------------------------------------------------------
(* Bounds of the model.                                                    *)

\* largest layerCount / depth of a copy region
MaxLayers == 3
\* largest number of mip levels of an image
MaxLevels == 2

----------------------------------------------------------------------------
(* Enumerations of the hardware interface (broadcom/cle, v3d_tiling).      *)

V3D_INTERNAL_BPP_32 == 0
V3D_INTERNAL_BPP_64 == 1
V3D_INTERNAL_BPP_128 == 2

UifTilings == {"UIF_NO_XOR", "UIF_XOR"}

\* Scaled-down allocation granularity of a command-list BO: the driver rounds
\* every CL allocation up to a 4096-byte page; 256 makes a job of three layers
\* run out of indirect space, as a job of about a hundred layers does there.
ClPageSize == 256

Max(a, b) == IF a >= b THEN a ELSE b

\* util: align(v, a), DIV_ROUND_UP(a, b), u_minify(v, level)
align(v, a) == ((v + a - 1) \div a) * a
DIV_ROUND_UP(a, b) == (a + b - 1) \div b
Pow2(n) == IF n = 0 THEN 1 ELSE IF n = 1 THEN 2 ELSE IF n = 2 THEN 4 ELSE 8
u_minify(v, level) == Max(1, v \div Pow2(level))

\* v3d_utile_height(cpp): height in pixels of a utile
v3d_utile_height(cpp) == IF cpp = 1 THEN 8 ELSE IF cpp \in {2, 4} THEN 4 ELSE 2

\* Byte length of each packet (cl_packet_length), from the V3D 4.x packet
\* definitions.
cl_packet_length(kind) ==
    CASE kind \in {"TILE_COORDINATES_IMPLICIT", "END_OF_LOADS",
                   "END_OF_TILE_MARKER", "RETURN_FROM_SUB_LIST",
                   "FLUSH_VCD_CACHE", "END_OF_RENDERING", "FLUSH"} -> 1
      [] kind \in {"BRANCH_TO_IMPLICIT_TILE_LIST", "CLEAR_TILE_BUFFERS",
                   "TILE_LIST_INITIAL_BLOCK_SIZE"} -> 2
      [] kind \in {"TILE_COORDINATES", "SUPERTILE_COORDINATES"} -> 3
      [] kind \in {"MULTICORE_RENDERING_TILE_LIST_SET_BASE", "BRANCH"} -> 5
      [] kind \in {"LOAD_TILE_BUFFER_GENERAL", "STORE_TILE_BUFFER_GENERAL"} -> 13
      [] OTHER -> 9

----------------------------------------------------------------------------
(* Format metadata (v3dv_get_format, v3dv_get_format_swizzle,              *)
(* v3dv_get_internal_type_bpp_for_output_format).                          *)

ColorFormats == {"R8G8B8A8_UNORM", "B8G8R8A8_UNORM", "R16G16B16A16_SFLOAT",
                 "R32G32B32A32_SFLOAT", "R8G8B8A8_UINT", "R8G8_UINT",
                 "R8_UINT", "R8G8B8A8_SNORM", "ETC2_R8G8B8A8_UNORM_BLOCK"}
DepthFormats == {"D16_UNORM", "D32_SFLOAT", "X8_D24_UNORM_PACK32",
                 "D24_UNORM_S8_UINT"}

\* struct v3dv_format: the render-target type, "NO" when the TLB cannot
\* render to the format
rt_type_of(f) ==
    CASE f \in {"R8G8B8A8_UNORM", "B8G8R8A8_UNORM"} -> "RGBA8"
      [] f = "R16G16B16A16_SFLOAT" -> "RGBA16F"
      [] f = "R32G32B32A32_SFLOAT" -> "RGBA32F"
      [] f = "R8G8B8A8_UINT" -> "RGBA8UI"
      [] f = "R8G8_UINT" -> "RG8UI"
      [] f = "R8_UINT" -> "R8UI"
      [] f = "D16_UNORM" -> "D16"
      [] f = "D32_SFLOAT" -> "D32F"
      [] f \in {"X8_D24_UNORM_PACK32", "D24_UNORM_S8_UINT"} -> "D24S8"
      [] OTHER -> "NO"

\* first component of the format swizzle
swizzle0_of(f) == IF f = "B8G8R8A8_UNORM" THEN "Z" ELSE "X"

\* bytes per pixel of the format
cpp_of(f) ==
    CASE f = "R16G16B16A16_SFLOAT" -> 8
      [] f \in {"R32G32B32A32_SFLOAT", "ETC2_R8G8B8A8_UNORM_BLOCK"} -> 16
      [] f \in {"R8G8_UINT", "D16_UNORM"} -> 2
      [] f = "R8_UINT" -> 1
      [] OTHER -> 4

\* aspects of an image of the format
aspects_of(f) ==
    CASE f = "D24_UNORM_S8_UINT" -> {"DEPTH", "STENCIL"}
      [] f \in DepthFormats -> {"DEPTH"}
      [] OTHER -> {"COLOR"}

v3dv_get_internal_type_bpp_for_output_format(rt) ==
    CASE rt = "RGBA8" -> [type |-> "8", bpp |-> V3D_INTERNAL_BPP_32]
      [] rt \in {"RGBA8UI", "RG8UI", "R8UI"} ->
            [type |-> "8UI", bpp |-> V3D_INTERNAL_BPP_32]
      [] rt = "RGBA16F" -> [type |-> "16F", bpp |-> V3D_INTERNAL_BPP_64]
      [] rt = "RGBA32F" -> [type |-> "32F", bpp |-> V3D_INTERNAL_BPP_128]
      [] OTHER -> [type |-> "8", bpp |-> V3D_INTERNAL_BPP_32]

----------------------------------------------------------------------------
(* Images and their slices (v3dv_image.c lays the slices out).             *)

\* A slice of an image.  A UIF slice is at least as tall as the level it
\* holds, so its padded height in UIF blocks is the level's height in UIF
\* blocks plus the padding the layout added.
MkSlice(f, w, h, level, tiling, pad) ==
    [tiling |-> tiling,
     padded_height_of_output_image_in_uif_blocks |->
        IF tiling \in UifTilings
        THEN DIV_ROUND_UP(u_minify(h, level), v3d_utile_height(cpp_of(f)) * 2) + pad
        ELSE 0,
     stride |-> u_minify(w, level) * cpp_of(f)]

MkImage(f, type, w, h, d, levels, array_size, samples, tiling, pad) ==
    [null |-> FALSE,
     vk_format |-> f,
     type |-> type,
     cpp |-> cpp_of(f),
     samples |-> samples,
     aspects |-> aspects_of(f),
     rt_type |-> rt_type_of(f),
     extent |-> [width |-> w, height |-> h, depth |-> d],
     levels |-> levels,
     array_size |-> array_size,
     slices |-> [l \in 0..(levels - 1) |-> MkSlice(f, w, h, l, tiling, pad)]]

NullImage == [null |-> TRUE]

----------------------------------------------------------------------------
(* Command lists (v3dv_cl.c) and jobs (v3dv_cmd_buffer.c).                 *)

EmptyCl == [bo |-> 0, offset |-> 0, size |-> 0, recs |-> <<>>]

\* v3dv_cl_get_address: the current write position
v3dv_cl_get_address(cl) == [bo |-> cl.bo, offset |-> cl.offset]

\* cl_emit: append one packet at the write position and advance it.  Each
\* stored packet remembers the address it was written at.
cl_emit(cl, rec) ==
    [cl EXCEPT !.recs = Append(@, rec @@ [at_bo |-> cl.bo, at |-> cl.offset]),
               !.offset = @ + cl_packet_length(rec.kind)]

\* v3dv_cl_ensure_space: keep writing in the current BO if `space` bytes fit
\* after aligning, else continue at offset 0 of a fresh BO.
v3dv_cl_ensure_space(cl, space, alignment) ==
    LET offset == align(cl.offset, alignment) IN
    IF offset + space <= cl.size
    THEN [cl EXCEPT !.offset = offset]
    ELSE [cl EXCEPT !.bo = @ + 1, !.offset = 0,
                    !.size = align(space, ClPageSize)]

\* v3dv_cl_ensure_space_with_branch: as above, chaining the old BO to the new
\* one with a BRANCH packet when there is an old one.
v3dv_cl_ensure_space_with_branch(cl, space) ==
    IF cl.offset + space + cl_packet_length("BRANCH") <= cl.size
    THEN cl
    ELSE LET old == IF cl.bo = 0 THEN cl
                    ELSE cl_emit(cl, [kind |-> "BRANCH", to_bo |-> cl.bo + 1])
         IN [old EXCEPT !.bo = @ + 1, !.offset = 0,
                        !.size = align(space, ClPageSize)]

NoTiling == [width |-> 0, height |-> 0, layers |-> 0, internal_bpp |-> 0,
             tile_width |-> 0, tile_height |-> 0,
             draw_tiles_x |-> 0, draw_tiles_y |-> 0,
             supertile_width |-> 0, supertile_height |-> 0,
             frame_width_in_supertiles |-> 0,
             frame_height_in_supertiles |-> 0]

NoJob == [open |-> FALSE, bcl |-> EmptyCl, rcl |-> EmptyCl,
          indirect |-> EmptyCl, frame_tiling |-> NoTiling]

\* v3dv_cmd_buffer_start_job: a fresh job with empty command lists
NewJob == [NoJob EXCEPT !.open = TRUE]

\* Tile size of a frame with one render target and no multisampling, by the
\* maximum internal bpp
TileWidth(bpp) == IF bpp = V3D_INTERNAL_BPP_128 THEN 32 ELSE 64
TileHeight(bpp) == IF bpp = V3D_INTERNAL_BPP_32 THEN 64 ELSE 32

\* The supertile sizing loop of the frame tiling: grow the supertile until
\* the frame has fewer than 256 of them.
RECURSIVE SizeSupertiles(_, _, _, _)
SizeSupertiles(tx, ty, sw, sh) ==
    IF DIV_ROUND_UP(tx, sw) * DIV_ROUND_UP(ty, sh) < 256
    THEN <<sw, sh>>
    ELSE IF sw < sh THEN SizeSupertiles(tx, ty, sw + 1, sh)
         ELSE SizeSupertiles(tx, ty, sw, sh + 1)

\* v3dv_job_start_frame: compute the frame tiling of the job
v3dv_job_start_frame(j, width, height, layers, bpp) ==
    LET tw == TileWidth(bpp)
        th == TileHeight(bpp)
        tx == DIV_ROUND_UP(width, tw)
        ty == DIV_ROUND_UP(height, th)
        st == SizeSupertiles(tx, ty, 1, 1)
    IN [j EXCEPT !.frame_tiling =
          [width |-> width, height |-> height, layers |-> layers,
           internal_bpp |-> bpp,
           tile_width |-> tw, tile_height |-> th,
           draw_tiles_x |-> tx, draw_tiles_y |-> ty,
           supertile_width |-> st[1], supertile_height |-> st[2],
           frame_width_in_supertiles |-> DIV_ROUND_UP(tx, st[1]),
           frame_height_in_supertiles |-> DIV_ROUND_UP(ty, st[2])]]

\* v3dv_job_emit_binning_flush: the binning list of a TLB job is one FLUSH
v3dv_job_emit_binning_flush(j) ==
    [j EXCEPT !.bcl = cl_emit(v3dv_cl_ensure_space_with_branch(@, 1),
                              [kind |-> "FLUSH"])]

----------------------------------------------------------------------------
(* Framebuffer data and format resolution.                                 *)

NoFb == [internal_type |-> "", min_x_supertile |-> 0, min_y_supertile |-> 0,
         max_x_supertile |-> 0, max_y_supertile |-> 0, vk_format |-> "",
         rt_type |-> ""]

\* A framebuffer whose max bounds divide the size instead of size - 1.
setup_framebuffer_data_floor(vk_format, internal_type, tiling) ==
    LET supertile_w_in_pixels == tiling.tile_width * tiling.supertile_width
        supertile_h_in_pixels == tiling.tile_height * tiling.supertile_height
    IN [internal_type |-> internal_type,
        min_x_supertile |-> 0,
        min_y_supertile |-> 0,
        max_x_supertile |-> tiling.width \div supertile_w_in_pixels,
        max_y_supertile |-> tiling.height \div supertile_h_in_pixels,
        vk_format |-> vk_format,
        rt_type |-> rt_type_of(vk_format)]

\* setup_framebuffer_data
setup_framebuffer_data(vk_format, internal_type, tiling) ==
    LET supertile_w_in_pixels == tiling.tile_width * tiling.supertile_width
        supertile_h_in_pixels == tiling.tile_height * tiling.supertile_height
    IN [internal_type |-> internal_type,
        min_x_supertile |-> 0,
        min_y_supertile |-> 0,
        max_x_supertile |-> (tiling.width - 1) \div supertile_w_in_pixels,
        max_y_supertile |-> (tiling.height - 1) \div supertile_h_in_pixels,
        vk_format |-> vk_format,
        rt_type |-> rt_type_of(vk_format)]

\* A choice of format that stores the stencil of a combined depth/stencil
\* image to a buffer as four channels.
choose_tlb_format_stencil_unpacked(framebuffer, aspect, for_store, is_copy_to_buffer, is_copy_from_buffer) ==
    IF is_copy_to_buffer \/ is_copy_from_buffer
    THEN CASE framebuffer.vk_format = "D16_UNORM" -> "R16UI"
           [] framebuffer.vk_format = "D32_SFLOAT" -> "R32F"
           [] framebuffer.vk_format = "X8_D24_UNORM_PACK32" -> "RGBA8UI"
           [] framebuffer.vk_format = "D24_UNORM_S8_UINT" ->
                 IF "DEPTH" \in aspect THEN "RGBA8UI"
                 ELSE IF is_copy_to_buffer
                      THEN "RGBA8UI"
                      ELSE (IF for_store THEN "RGBA8UI" ELSE "R8UI")
           [] OTHER -> framebuffer.rt_type
    ELSE framebuffer.rt_type

\* choose_tlb_format
choose_tlb_format(framebuffer, aspect, for_store, is_copy_to_buffer, is_copy_from_buffer) ==
    IF is_copy_to_buffer \/ is_copy_from_buffer
    THEN CASE framebuffer.vk_format = "D16_UNORM" -> "R16UI"
           [] framebuffer.vk_format = "D32_SFLOAT" -> "R32F"
           [] framebuffer.vk_format = "X8_D24_UNORM_PACK32" -> "RGBA8UI"
           [] framebuffer.vk_format = "D24_UNORM_S8_UINT" ->
                 IF "DEPTH" \in aspect THEN "RGBA8UI"
                 ELSE IF is_copy_to_buffer
                      THEN (IF for_store THEN "R8UI" ELSE "RGBA8UI")
                      ELSE (IF for_store THEN "RGBA8UI" ELSE "R8UI")
           [] OTHER -> framebuffer.rt_type
    ELSE framebuffer.rt_type

\* format_needs_rb_swap
format_needs_rb_swap(format) == swizzle0_of(format) = "Z"

\* A resolver that gives D16_UNORM the class of the 24-bit depth formats.
get_internal_type_bpp_for_image_aspects_d16_as_d24(vk_format, aspect_mask) ==
    IF aspect_mask \cap {"DEPTH", "STENCIL"} # {}
    THEN CASE vk_format = "D32_SFLOAT" ->
                 [type |-> "32F", bpp |-> V3D_INTERNAL_BPP_128, ok |-> TRUE]
           [] vk_format \in {"D16_UNORM", "X8_D24_UNORM_PACK32",
                             "D24_UNORM_S8_UINT"} ->
                 [type |-> "8UI", bpp |-> V3D_INTERNAL_BPP_32, ok |-> TRUE]
           [] OTHER -> [type |-> "", bpp |-> 0, ok |-> FALSE]
    ELSE v3dv_get_internal_type_bpp_for_output_format(rt_type_of(vk_format))
            @@ [ok |-> TRUE]

\* get_internal_type_bpp_for_image_aspects; ok is FALSE where the source
\* asserts "unsupported format"
get_internal_type_bpp_for_image_aspects(vk_format, aspect_mask) ==
    IF aspect_mask \cap {"DEPTH", "STENCIL"} # {}
    THEN CASE vk_format = "D16_UNORM" ->
                 [type |-> "16UI", bpp |-> V3D_INTERNAL_BPP_64, ok |-> TRUE]
           [] vk_format = "D32_SFLOAT" ->
                 [type |-> "32F", bpp |-> V3D_INTERNAL_BPP_128, ok |-> TRUE]
           [] vk_format \in {"X8_D24_UNORM_PACK32", "D24_UNORM_S8_UINT"} ->
                 [type |-> "8UI", bpp |-> V3D_INTERNAL_BPP_32, ok |-> TRUE]
           [] OTHER -> [type |-> "", bpp |-> 0, ok |-> FALSE]
    ELSE v3dv_get_internal_type_bpp_for_output_format(rt_type_of(vk_format))
            @@ [ok |-> TRUE]

\* get_compatible_tlb_format
get_compatible_tlb_format(format) ==
    CASE format = "R8G8B8A8_SNORM" -> "R8G8B8A8_UINT"
      [] format = "R8G8_SNORM" -> "R8G8_UINT"
      [] format = "R8_SNORM" -> "R8_UINT"
      [] format = "A8B8G8R8_SNORM_PACK32" -> "A8B8G8R8_UINT_PACK32"
      [] format \in {"R16_UNORM", "R16_SNORM"} -> "R16_UINT"
      [] format \in {"R16G16_UNORM", "R16G16_SNORM"} -> "R16G16_UINT"
      [] format \in {"R16G16B16A16_UNORM", "R16G16B16A16_SNORM"} ->
            "R16G16B16A16_UINT"
      [] format = "E5B9G9R9_UFLOAT_PACK32" -> "R32_SFLOAT"
      [] OTHER -> "UNDEFINED"

\* A test of the offset that looks at x only.
can_use_tlb_x_only(image, offset, want_compat, prev) ==
    IF offset.x # 0
    THEN [ok |-> FALSE, compat_format |-> prev]
    ELSE IF image.rt_type # "NO"
    THEN [ok |-> TRUE,
          compat_format |-> IF want_compat THEN image.vk_format ELSE prev]
    ELSE IF want_compat
    THEN [ok |-> get_compatible_tlb_format(image.vk_format) # "UNDEFINED",
          compat_format |-> get_compatible_tlb_format(image.vk_format)]
    ELSE [ok |-> FALSE, compat_format |-> prev]

\* can_use_tlb: ok, and the format written through compat_format (the format
\* is left as it was, `prev`, where the source does not write it)
can_use_tlb(image, offset, want_compat, prev) ==
    IF offset.x # 0 \/ offset.y # 0
    THEN [ok |-> FALSE, compat_format |-> prev]
    ELSE IF image.rt_type # "NO"
    THEN [ok |-> TRUE,
          compat_format |-> IF want_compat THEN image.vk_format ELSE prev]
    ELSE IF want_compat
    THEN [ok |-> get_compatible_tlb_format(image.vk_format) # "UNDEFINED",
          compat_format |-> get_compatible_tlb_format(image.vk_format)]
    ELSE [ok |-> FALSE, compat_format |-> prev]

----------------------------------------------------------------------------
(* Render control list: prologue, frame setup, supertile coordinates.      *)

\* struct rcl_clear_info; a NULL pointer is NoClearInfo
NoClearInfo == [present |-> FALSE]
ClearInfo(clear_value, image, aspects, l, level) ==
    [present |-> TRUE, clear_value |-> clear_value, image |-> image,
     aspects |-> aspects, layer |-> l, level |-> level]

\* The comparison a - b >= k of two uint32_t: a - b wraps modulo 2^32, so
\* with a < b (and b - a far below 2^32 - k) the difference is huge.
U32SubGe(a, b, k) == IF a >= b THEN a - b >= k ELSE TRUE

\* A padding test that needs more than 15 blocks of difference.
ClearPad_above_15(tiling, clear_info) ==
    IF ~clear_info.image.null
    THEN LET image == clear_info.image
             slice == image.slices[clear_info.level]
             uif_block_height == v3d_utile_height(image.cpp) * 2
             implicit_padded_height ==
                align(tiling.height, uif_block_height) \div uif_block_height
         IN IF slice.tiling \in UifTilings
               /\ U32SubGe(slice.padded_height_of_output_image_in_uif_blocks,
                           implicit_padded_height, 16)
            THEN slice.padded_height_of_output_image_in_uif_blocks
            ELSE 0
    ELSE 0

\* A padding that carries the difference of the two heights.
ClearPad_difference(tiling, clear_info) ==
    IF ~clear_info.image.null
    THEN LET image == clear_info.image
             slice == image.slices[clear_info.level]
             uif_block_height == v3d_utile_height(image.cpp) * 2
             implicit_padded_height ==
                align(tiling.height, uif_block_height) \div uif_block_height
         IN IF slice.tiling \in UifTilings
               /\ U32SubGe(slice.padded_height_of_output_image_in_uif_blocks,
                           implicit_padded_height, 15)
            THEN slice.padded_height_of_output_image_in_uif_blocks
                    - implicit_padded_height
            ELSE 0
    ELSE 0

\* emit_rcl_prologue, lines 222-239: the UIF padding of a color clear
ClearPad(tiling, clear_info) ==
    IF ~clear_info.image.null
    THEN LET image == clear_info.image
             slice == image.slices[clear_info.level]
             uif_block_height == v3d_utile_height(image.cpp) * 2
             implicit_padded_height ==
                align(tiling.height, uif_block_height) \div uif_block_height
         IN IF slice.tiling \in UifTilings
               /\ U32SubGe(slice.padded_height_of_output_image_in_uif_blocks,
                           implicit_padded_height, 15)
            THEN slice.padded_height_of_output_image_in_uif_blocks
            ELSE 0
    ELSE 0

\* Clear-color packets emitted for a clear of any aspect.
EmitClearColors_any_aspect(rcl, tiling, clear_info) ==
    IF clear_info.present
    THEN LET color == clear_info.clear_value.color
             r1 == cl_emit(rcl,
                     [kind |-> "TILE_RENDERING_MODE_CFG_CLEAR_COLORS_PART1",
                      clear_color_low_32_bits |-> color[1],
                      clear_color_next_24_bits |-> color[2] % 16777216,
                      render_target_number |-> 0])
         IN r1
    ELSE rcl

\* emit_rcl_prologue, lines 221-265: the clear-color packets
EmitClearColors(rcl, tiling, clear_info) ==
    IF clear_info.present /\ "COLOR" \in clear_info.aspects
    THEN LET clear_pad == ClearPad(tiling, clear_info)
             color == clear_info.clear_value.color
             r1 == cl_emit(rcl,
                     [kind |-> "TILE_RENDERING_MODE_CFG_CLEAR_COLORS_PART1",
                      clear_color_low_32_bits |-> color[1],
                      clear_color_next_24_bits |-> color[2] % 16777216,
                      render_target_number |-> 0])
             r2 == IF tiling.internal_bpp >= V3D_INTERNAL_BPP_64
                   THEN cl_emit(r1,
                     [kind |-> "TILE_RENDERING_MODE_CFG_CLEAR_COLORS_PART2",
                      clear_color_mid_low_32_bits |->
                         (color[2] \div 16777216) + (color[3] % 16777216) * 256,
                      clear_color_mid_high_24_bits |->
                         (color[3] \div 16777216) + (color[4] % 65536) * 256,
                      render_target_number |-> 0])
                   ELSE r1
         IN IF tiling.internal_bpp >= V3D_INTERNAL_BPP_128 \/ clear_pad # 0
            THEN cl_emit(r2,
                     [kind |-> "TILE_RENDERING_MODE_CFG_CLEAR_COLORS_PART3",
                      uif_padded_height_in_uif_blocks |-> clear_pad,
                      clear_color_high_16_bits |-> color[4] \div 65536,
                      render_target_number |-> 0])
            ELSE r2
    ELSE rcl

\* emit_rcl_prologue
emit_rcl_prologue(j, rt_internal_type, clear_info) ==
    LET tiling == j.frame_tiling
        r0 == v3dv_cl_ensure_space_with_branch(j.rcl,
                 200 + tiling.layers * 256 * cl_packet_length("SUPERTILE_COORDINATES"))
        r1 == cl_emit(r0, [kind |-> "TILE_RENDERING_MODE_CFG_COMMON",
                           early_z_disable |-> TRUE,
                           image_width_pixels |-> tiling.width,
                           image_height_pixels |-> tiling.height,
                           number_of_render_targets |-> 1,
                           multisample_mode_4x |-> FALSE,
                           maximum_bpp_of_all_render_targets |-> tiling.internal_bpp])
        r2 == EmitClearColors(r1, tiling, clear_info)
        r3 == cl_emit(r2, [kind |-> "TILE_RENDERING_MODE_CFG_COLOR",
                           render_target_0_internal_bpp |-> tiling.internal_bpp,
                           render_target_0_internal_type |-> rt_internal_type,
                           render_target_0_clamp |-> "NONE"])
        r4 == cl_emit(r3, [kind |-> "TILE_RENDERING_MODE_CFG_ZS_CLEAR_VALUES",
                           z_clear_value |-> IF clear_info.present
                                             THEN clear_info.clear_value.z ELSE "1.0",
                           stencil_clear_value |-> IF clear_info.present
                                                   THEN clear_info.clear_value.s ELSE 0])
        r5 == cl_emit(r4, [kind |-> "TILE_LIST_INITIAL_BLOCK_SIZE",
                           use_auto_chained_tile_lists |-> TRUE,
                           size_of_first_block_in_chained_tile_lists |-> "64B"])
    IN [j EXCEPT !.rcl = r5]

\* A workaround iteration that clears on both passes.
FrameSetupIter_clear_both(rcl, i, has_clear) ==
    LET r1 == cl_emit(rcl, [kind |-> "TILE_COORDINATES"])
        r2 == cl_emit(r1, [kind |-> "END_OF_LOADS"])
        r3 == cl_emit(r2, [kind |-> "STORE_TILE_BUFFER_GENERAL",
                           buffer_to_store |-> "NONE"])
        r4 == IF has_clear
              THEN cl_emit(r3, [kind |-> "CLEAR_TILE_BUFFERS",
                                clear_z_stencil_buffer |-> TRUE,
                                clear_all_render_targets |-> TRUE])
              ELSE r3
    IN cl_emit(r4, [kind |-> "END_OF_TILE_MARKER"])

\* emit_frame_setup, lines 319-332: one iteration of the GFXH-1742 loop
FrameSetupIter(rcl, i, has_clear) ==
    LET r1 == cl_emit(rcl, [kind |-> "TILE_COORDINATES"])
        r2 == cl_emit(r1, [kind |-> "END_OF_LOADS"])
        r3 == cl_emit(r2, [kind |-> "STORE_TILE_BUFFER_GENERAL",
                           buffer_to_store |-> "NONE"])
        r4 == IF has_clear /\ i = 0
              THEN cl_emit(r3, [kind |-> "CLEAR_TILE_BUFFERS",
                                clear_z_stencil_buffer |-> TRUE,
                                clear_all_render_targets |-> TRUE])
              ELSE r3
    IN cl_emit(r4, [kind |-> "END_OF_TILE_MARKER"])

\* emit_frame_setup; has_clear is clear_value != NULL
emit_frame_setup(j, l, has_clear) ==
    LET tiling == j.frame_tiling
        tile_alloc_offset == 64 * l * tiling.draw_tiles_x * tiling.draw_tiles_y
        r1 == cl_emit(j.rcl, [kind |-> "MULTICORE_RENDERING_TILE_LIST_SET_BASE",
                              address |-> [bo |-> "tile_alloc",
                                           offset |-> tile_alloc_offset]])
        r2 == cl_emit(r1, [kind |-> "MULTICORE_RENDERING_SUPERTILE_CFG",
                   number_of_bin_tile_lists |-> 1,
                   total_frame_width_in_tiles |-> tiling.draw_tiles_x,
                   total_frame_height_in_tiles |-> tiling.draw_tiles_y,
                   supertile_width_in_tiles |-> tiling.supertile_width,
                   supertile_height_in_tiles |-> tiling.supertile_height,
                   total_frame_width_in_supertiles |-> tiling.frame_width_in_supertiles,
                   total_frame_height_in_supertiles |-> tiling.frame_height_in_supertiles])
        r3 == FrameSetupIter(r2, 0, has_clear)
        r4 == FrameSetupIter(r3, 1, has_clear)
    IN [j EXCEPT !.rcl = cl_emit(r4, [kind |-> "FLUSH_VCD_CACHE"])]

\* emit_supertile_coordinates, lines 349-354: the inner loop over x, one
\* cl_emit for each x from min_x to max_x in increasing order; the k-th
\* packet of the row is written where the k - 1 before it ended
SupertileRow(rcl, y, min_x, max_x) ==
    LET n == IF max_x >= min_x THEN max_x - min_x + 1 ELSE 0
        len == cl_packet_length("SUPERTILE_COORDINATES")
    IN [rcl EXCEPT
          !.recs = @ \o [k \in 1..n |->
                           [kind |-> "SUPERTILE_COORDINATES",
                            column_number_in_supertiles |-> min_x + k - 1,
                            row_number_in_supertiles |-> y,
                            at_bo |-> rcl.bo,
                            at |-> rcl.offset + (k - 1) * len]],
          !.offset = @ + n * len]

\* emit_supertile_coordinates, lines 348-355: the outer loop over y
RECURSIVE SupertileRows(_, _, _, _, _)
SupertileRows(rcl, y, max_y, min_x, max_x) ==
    IF y <= max_y
    THEN SupertileRows(SupertileRow(rcl, y, min_x, max_x), y + 1, max_y, min_x, max_x)
    ELSE rcl

\* An emitter that walks the columns in the outer loop.
emit_supertile_coordinates_swapped(j, framebuffer) ==
    [j EXCEPT !.rcl = SupertileRows(@, framebuffer.min_x_supertile,
                                    framebuffer.max_x_supertile,
                                    framebuffer.min_y_supertile,
                                    framebuffer.max_y_supertile)]

\* emit_supertile_coordinates
emit_supertile_coordinates(j, framebuffer) ==
    [j EXCEPT !.rcl = SupertileRows(@, framebuffer.min_y_supertile,
                                    framebuffer.max_y_supertile,
                                    framebuffer.min_x_supertile,
                                    framebuffer.max_x_supertile)]

----------------------------------------------------------------------------
(* Tile buffer loads and stores.                                           *)

\* v3dv_zs_buffer_from_aspect_bits
v3dv_zs_buffer_from_aspect_bits(aspect) ==
    IF {"DEPTH", "STENCIL"} \subseteq aspect THEN "ZSTENCIL"
    ELSE IF "DEPTH" \in aspect THEN "Z"
    ELSE IF "STENCIL" \in aspect THEN "STENCIL"
    ELSE "NONE"

\* VK_SAMPLE_COUNT_1_BIT
VK_SAMPLE_COUNT_1_BIT == 1

\* emit_linear_load
emit_linear_load(cl, buffer, bo, offset, stride, format) ==
    cl_emit(cl, [kind |-> "LOAD_TILE_BUFFER_GENERAL",
                 buffer_to_load |-> buffer,
                 address |-> [bo |-> bo, offset |-> offset],
                 input_image_format |-> format,
                 memory_format |-> "RASTER",
                 height_in_ub_or_stride |-> stride,
                 r_b_swap |-> FALSE,
                 channel_reverse |-> FALSE,
                 decimate_mode |-> "SAMPLE_0"])

\* emit_linear_store
emit_linear_store(cl, buffer, bo, offset, stride, msaa, format) ==
    cl_emit(cl, [kind |-> "STORE_TILE_BUFFER_GENERAL",
                 buffer_to_store |-> "RENDER_TARGET_0",
                 address |-> [bo |-> bo, offset |-> offset],
                 clear_buffer_being_stored |-> FALSE,
                 output_image_format |-> format,
                 memory_format |-> "RASTER",
                 height_in_ub_or_stride |-> stride,
                 r_b_swap |-> FALSE,
                 channel_reverse |-> FALSE,
                 decimate_mode |-> IF msaa THEN "ALL_SAMPLES" ELSE "SAMPLE_0"])

\* emit_image_load, lines 445-459, and emit_image_store, lines 503-514: the
\* channel fixups.  `raw` is the copy direction that needs the D24 fixup:
\* is_copy_to_buffer for a load, is_copy_from_buffer for a store.
ChannelFixup(framebuffer, aspect, raw, is_copy_to_buffer, is_copy_from_buffer) ==
    IF raw /\ (framebuffer.vk_format = "X8_D24_UNORM_PACK32"
               \/ (framebuffer.vk_format = "D24_UNORM_S8_UINT" /\ "DEPTH" \in aspect))
    THEN [needs_rb_swap |-> TRUE, needs_chan_reverse |-> TRUE]
    ELSE IF ~is_copy_from_buffer /\ ~is_copy_to_buffer /\ "COLOR" \in aspect
    THEN [needs_rb_swap |-> format_needs_rb_swap(framebuffer.vk_format),
          needs_chan_reverse |-> FALSE]
    ELSE [needs_rb_swap |-> FALSE, needs_chan_reverse |-> FALSE]

\* A height-or-stride rule that knows UIF without XOR only.
HeightOrStride_no_xor_only(slice) ==
    IF slice.tiling = "UIF_NO_XOR"
    THEN slice.padded_height_of_output_image_in_uif_blocks
    ELSE IF slice.tiling = "RASTER" THEN slice.stride
    ELSE 0

\* emit_image_load, lines 464-470, and emit_image_store, lines 523-529
HeightOrStride(slice) ==
    IF slice.tiling \in UifTilings
    THEN slice.padded_height_of_output_image_in_uif_blocks
    ELSE IF slice.tiling = "RASTER" THEN slice.stride
    ELSE 0

\* A decimate mode that takes a single-sampled image for multisampled.
DecimateMode_from_one_sample(image) ==
    IF image.samples >= VK_SAMPLE_COUNT_1_BIT THEN "ALL_SAMPLES" ELSE "SAMPLE_0"

\* emit_image_load, lines 472-475, and emit_image_store, lines 531-534
DecimateMode(image) ==
    IF image.samples > VK_SAMPLE_COUNT_1_BIT THEN "ALL_SAMPLES" ELSE "SAMPLE_0"

\* emit_image_load; `which` names the image whose memory is addressed
emit_image_load(cl, framebuffer, image, which, aspect, l, mip_level, is_copy_to_buffer, is_copy_from_buffer) ==
    LET load_to_color_tlb == is_copy_to_buffer \/ is_copy_from_buffer
                             \/ aspect = {"COLOR"}
        slice == image.slices[mip_level]
        fix == ChannelFixup(framebuffer, aspect, is_copy_to_buffer,
                            is_copy_to_buffer, is_copy_from_buffer)
    IN cl_emit(cl, [kind |-> "LOAD_TILE_BUFFER_GENERAL",
                    buffer_to_load |-> IF load_to_color_tlb THEN "RENDER_TARGET_0"
                                       ELSE v3dv_zs_buffer_from_aspect_bits(aspect),
                    address |-> [bo |-> which,
                                 offset |-> [level |-> mip_level, layer |-> l]],
                    input_image_format |->
                       choose_tlb_format(framebuffer, aspect, FALSE,
                                         is_copy_to_buffer, is_copy_from_buffer),
                    memory_format |-> slice.tiling,
                    r_b_swap |-> fix.needs_rb_swap,
                    channel_reverse |-> fix.needs_chan_reverse,
                    height_in_ub_or_stride |-> HeightOrStride(slice),
                    decimate_mode |-> DecimateMode(image)])

\* A store to an image that leaves the channel order of a copy from a buffer
\* as it is.
emit_image_store_no_fixup(cl, framebuffer, image, which, aspect, l, mip_level, is_copy_to_buffer, is_copy_from_buffer) ==
    LET store_from_color_tlb == is_copy_to_buffer \/ is_copy_from_buffer
                                \/ aspect = {"COLOR"}
        slice == image.slices[mip_level]
        fix == ChannelFixup(framebuffer, aspect, FALSE,
                            is_copy_to_buffer, is_copy_from_buffer)
    IN cl_emit(cl, [kind |-> "STORE_TILE_BUFFER_GENERAL",
                    buffer_to_store |-> IF store_from_color_tlb THEN "RENDER_TARGET_0"
                                        ELSE v3dv_zs_buffer_from_aspect_bits(aspect),
                    address |-> [bo |-> which,
                                 offset |-> [level |-> mip_level, layer |-> l]],
                    clear_buffer_being_stored |-> FALSE,
                    r_b_swap |-> fix.needs_rb_swap,
                    channel_reverse |-> fix.needs_chan_reverse,
                    output_image_format |->
                       choose_tlb_format(framebuffer, aspect, TRUE,
                                         is_copy_to_buffer, is_copy_from_buffer),
                    memory_format |-> slice.tiling,
                    height_in_ub_or_stride |-> HeightOrStride(slice),
                    decimate_mode |-> DecimateMode(image)])

\* emit_image_store
emit_image_store(cl, framebuffer, image, which, aspect, l, mip_level, is_copy_to_buffer, is_copy_from_buffer) ==
    LET store_from_color_tlb == is_copy_to_buffer \/ is_copy_from_buffer
                                \/ aspect = {"COLOR"}
        slice == image.slices[mip_level]
        fix == ChannelFixup(framebuffer, aspect, is_copy_from_buffer,
                            is_copy_to_buffer, is_copy_from_buffer)
    IN cl_emit(cl, [kind |-> "STORE_TILE_BUFFER_GENERAL",
                    buffer_to_store |-> IF store_from_color_tlb THEN "RENDER_TARGET_0"
                                        ELSE v3dv_zs_buffer_from_aspect_bits(aspect),
                    address |-> [bo |-> which,
                                 offset |-> [level |-> mip_level, layer |-> l]],
                    clear_buffer_being_stored |-> FALSE,
                    r_b_swap |-> fix.needs_rb_swap,
                    channel_reverse |-> fix.needs_chan_reverse,
                    output_image_format |->
                       choose_tlb_format(framebuffer, aspect, TRUE,
                                         is_copy_to_buffer, is_copy_from_buffer),
                    memory_format |-> slice.tiling,
                    height_in_ub_or_stride |-> HeightOrStride(slice),
                    decimate_mode |-> DecimateMode(image)])

----------------------------------------------------------------------------
(* The six per-tile-list emitters.                                         *)

\* The opening of every emitter: ensure 200 bytes of indirect space, then
\* take the start address (lines 546-548, 769-771, 916-918, 1140-1142,
\* 1371-1373, 1505-1507)
TileListOpen(j) == v3dv_cl_ensure_space(j.indirect, 200, 1)

\* A close that reads the end address from the list as it was on entry.
TileListClose_stale_end(j, cl, tile_list_start) ==
    [j EXCEPT !.indirect = cl,
              !.rcl = cl_emit(@, [kind |-> "START_ADDRESS_OF_GENERIC_TILE_LIST",
                                  start |-> tile_list_start,
                                  end |-> v3dv_cl_get_address(j.indirect)])]

\* The close of every emitter: the START_ADDRESS_OF_GENERIC_TILE_LIST packet
\* of the render control list (lines 598-601, 799-802, 932-935, 1159-1162,
\* 1388-1391, 1590-1593)
TileListClose(j, cl, tile_list_start) ==
    [j EXCEPT !.indirect = cl,
              !.rcl = cl_emit(@, [kind |-> "START_ADDRESS_OF_GENERIC_TILE_LIST",
                                  start |-> tile_list_start,
                                  end |-> v3dv_cl_get_address(cl)])]

\* width and height of the buffer side of a VkBufferImageCopy
BufferWidth(region) ==
    IF region.bufferRowLength = 0 THEN region.imageExtent.width
    ELSE region.bufferRowLength
BufferHeight(region) ==
    IF region.bufferImageHeight = 0 THEN region.imageExtent.height
    ELSE region.bufferImageHeight

\* emit_copy_layer_to_buffer_per_tile_list
emit_copy_layer_to_buffer_per_tile_list(j, framebuffer, image, l, region) ==
    LET cl0 == TileListOpen(j)
        tile_list_start == v3dv_cl_get_address(cl0)
        imgrsc == region.imageSubresource
        c1 == cl_emit(cl0, [kind |-> "TILE_COORDINATES_IMPLICIT"])
        c2 == emit_image_load(c1, framebuffer, image, "image", imgrsc.aspectMask,
                              imgrsc.baseArrayLayer + l, imgrsc.mipLevel,
                              TRUE, FALSE)
        c3 == cl_emit(c2, [kind |-> "END_OF_LOADS"])
        c4 == cl_emit(c3, [kind |-> "BRANCH_TO_IMPLICIT_TILE_LIST"])
        cpp == IF "STENCIL" \in imgrsc.aspectMask THEN 1 ELSE image.cpp
        buffer_stride == BufferWidth(region) * cpp
        buffer_offset == region.bufferOffset + BufferHeight(region) * buffer_stride * l
        format == choose_tlb_format(framebuffer, imgrsc.aspectMask, TRUE, TRUE, FALSE)
        msaa == image.samples > VK_SAMPLE_COUNT_1_BIT
        c5 == emit_linear_store(c4, "RENDER_TARGET_0", "buffer", buffer_offset,
                                buffer_stride, msaa, format)
        c6 == cl_emit(c5, [kind |-> "END_OF_TILE_MARKER"])
        c7 == cl_emit(c6, [kind |-> "RETURN_FROM_SUB_LIST"])
    IN TileListClose(j, c7, tile_list_start)

\* emit_copy_image_layer_per_tile_list
emit_copy_image_layer_per_tile_list(j, framebuffer, dst, src, l, region) ==
    LET cl0 == TileListOpen(j)
        tile_list_start == v3dv_cl_get_address(cl0)
        srcrsc == region.srcSubresource
        dstrsc == region.dstSubresource
        c1 == cl_emit(cl0, [kind |-> "TILE_COORDINATES_IMPLICIT"])
        c2 == emit_image_load(c1, framebuffer, src, "src", srcrsc.aspectMask,
                              srcrsc.baseArrayLayer + l, srcrsc.mipLevel,
                              FALSE, FALSE)
        c3 == cl_emit(c2, [kind |-> "END_OF_LOADS"])
        c4 == cl_emit(c3, [kind |-> "BRANCH_TO_IMPLICIT_TILE_LIST"])
        c5 == emit_image_store(c4, framebuffer, dst, "dst", dstrsc.aspectMask,
                               dstrsc.baseArrayLayer + l, dstrsc.mipLevel,
                               FALSE, FALSE)
        c6 == cl_emit(c5, [kind |-> "END_OF_TILE_MARKER"])
        c7 == cl_emit(c6, [kind |-> "RETURN_FROM_SUB_LIST"])
    IN TileListClose(j, c7, tile_list_start)

\* A clear emitter that stores before the branch to the implicit tile list.
emit_clear_image_per_tile_list_store_first(j, framebuffer, image, aspects, l, level) ==
    LET cl0 == TileListOpen(j)
        tile_list_start == v3dv_cl_get_address(cl0)
        c1 == cl_emit(cl0, [kind |-> "TILE_COORDINATES_IMPLICIT"])
        c2 == cl_emit(c1, [kind |-> "END_OF_LOADS"])
        c3 == emit_image_store(c2, framebuffer, image, "image", aspects, l, level,
                               FALSE, FALSE)
        c4 == cl_emit(c3, [kind |-> "BRANCH_TO_IMPLICIT_TILE_LIST"])
        c5 == cl_emit(c4, [kind |-> "END_OF_TILE_MARKER"])
        c6 == cl_emit(c5, [kind |-> "RETURN_FROM_SUB_LIST"])
    IN TileListClose(j, c6, tile_list_start)

\* emit_clear_image_per_tile_list
emit_clear_image_per_tile_list(j, framebuffer, image, aspects, l, level) ==
    LET cl0 == TileListOpen(j)
        tile_list_start == v3dv_cl_get_address(cl0)
        c1 == cl_emit(cl0, [kind |-> "TILE_COORDINATES_IMPLICIT"])
        c2 == cl_emit(c1, [kind |-> "END_OF_LOADS"])
        c3 == cl_emit(c2, [kind |-> "BRANCH_TO_IMPLICIT_TILE_LIST"])
        c4 == emit_image_store(c3, framebuffer, image, "image", aspects, l, level,
                               FALSE, FALSE)
        c5 == cl_emit(c4, [kind |-> "END_OF_TILE_MARKER"])
        c6 == cl_emit(c5, [kind |-> "RETURN_FROM_SUB_LIST"])
    IN TileListClose(j, c6, tile_list_start)

\* emit_copy_buffer_per_tile_list
emit_copy_buffer_per_tile_list(j, dst_offset, src_offset, stride, format) ==
    LET cl0 == TileListOpen(j)
        tile_list_start == v3dv_cl_get_address(cl0)
        c1 == cl_emit(cl0, [kind |-> "TILE_COORDINATES_IMPLICIT"])
        c2 == emit_linear_load(c1, "RENDER_TARGET_0", "src", src_offset, stride, format)
        c3 == cl_emit(c2, [kind |-> "END_OF_LOADS"])
        c4 == cl_emit(c3, [kind |-> "BRANCH_TO_IMPLICIT_TILE_LIST"])
        c5 == emit_linear_store(c4, "RENDER_TARGET_0", "dst", dst_offset, stride,
                                FALSE, format)
        c6 == cl_emit(c5, [kind |-> "END_OF_TILE_MARKER"])
        c7 == cl_emit(c6, [kind |-> "RETURN_FROM_SUB_LIST"])
    IN TileListClose(j, c7, tile_list_start)

\* emit_fill_buffer_per_tile_list
emit_fill_buffer_per_tile_list(j, offset, stride) ==
    LET cl0 == TileListOpen(j)
        tile_list_start == v3dv_cl_get_address(cl0)
        c1 == cl_emit(cl0, [kind |-> "TILE_COORDINATES_IMPLICIT"])
        c2 == cl_emit(c1, [kind |-> "END_OF_LOADS"])
        c3 == cl_emit(c2, [kind |-> "BRANCH_TO_IMPLICIT_TILE_LIST"])
        c4 == emit_linear_store(c3, "RENDER_TARGET_0", "bo", offset, stride,
                                FALSE, "RGBA8UI")
        c5 == cl_emit(c4, [kind |-> "END_OF_TILE_MARKER"])
        c6 == cl_emit(c5, [kind |-> "RETURN_FROM_SUB_LIST"])
    IN TileListClose(j, c6, tile_list_start)

\* The aspect of a combined depth/stencil image that a single-aspect upload
\* does not copy (lines 1552-1561, 1574-1583)
OtherAspect(aspectMask) ==
    IF "DEPTH" \in aspectMask THEN {"STENCIL"} ELSE {"DEPTH"}

\* An upload that restores the aspect it does not copy before it stores the
\* aspect it copies.
emit_copy_buffer_to_layer_per_tile_list_restore_first(j, framebuffer, image, l, region) ==
    LET cl0 == TileListOpen(j)
        tile_list_start == v3dv_cl_get_address(cl0)
        imgrsc == region.imageSubresource
        c1 == cl_emit(cl0, [kind |-> "TILE_COORDINATES_IMPLICIT"])
        cpp == IF "STENCIL" \in imgrsc.aspectMask THEN 1 ELSE image.cpp
        buffer_stride == BufferWidth(region) * cpp
        buffer_offset == region.bufferOffset + BufferHeight(region) * buffer_stride * l
        format == choose_tlb_format(framebuffer, imgrsc.aspectMask, FALSE, FALSE, TRUE)
        c2 == emit_linear_load(c1, "RENDER_TARGET_0", "buffer", buffer_offset,
                               buffer_stride, format)
        c3 == IF framebuffer.vk_format = "D24_UNORM_S8_UINT"
              THEN emit_image_load(c2, framebuffer, image, "image",
                                   OtherAspect(imgrsc.aspectMask),
                                   imgrsc.baseArrayLayer + l, imgrsc.mipLevel,
                                   FALSE, FALSE)
              ELSE c2
        c4 == cl_emit(c3, [kind |-> "END_OF_LOADS"])
        c5 == cl_emit(c4, [kind |-> "BRANCH_TO_IMPLICIT_TILE_LIST"])
        c6 == IF framebuffer.vk_format = "D24_UNORM_S8_UINT"
              THEN emit_image_store(c5, framebuffer, image, "image",
                                    OtherAspect(imgrsc.aspectMask),
                                    imgrsc.baseArrayLayer + l, imgrsc.mipLevel,
                                    FALSE, FALSE)
              ELSE c5
        c7 == emit_image_store(c6, framebuffer, image, "image", imgrsc.aspectMask,
                               imgrsc.baseArrayLayer + l, imgrsc.mipLevel,
                               FALSE, TRUE)
        c8 == cl_emit(c7, [kind |-> "END_OF_TILE_MARKER"])
        c9 == cl_emit(c8, [kind |-> "RETURN_FROM_SUB_LIST"])
    IN TileListClose(j, c9, tile_list_start)

\* emit_copy_buffer_to_layer_per_tile_list
emit_copy_buffer_to_layer_per_tile_list(j, framebuffer, image, l, region) ==
    LET cl0 == TileListOpen(j)
        tile_list_start == v3dv_cl_get_address(cl0)
        imgrsc == region.imageSubresource
        c1 == cl_emit(cl0, [kind |-> "TILE_COORDINATES_IMPLICIT"])
        cpp == IF "STENCIL" \in imgrsc.aspectMask THEN 1 ELSE image.cpp
        buffer_stride == BufferWidth(region) * cpp
        buffer_offset == region.bufferOffset + BufferHeight(region) * buffer_stride * l
        format == choose_tlb_format(framebuffer, imgrsc.aspectMask, FALSE, FALSE, TRUE)
        c2 == emit_linear_load(c1, "RENDER_TARGET_0", "buffer", buffer_offset,
                               buffer_stride, format)
        c3 == IF framebuffer.vk_format = "D24_UNORM_S8_UINT"
              THEN emit_image_load(c2, framebuffer, image, "image",
                                   OtherAspect(imgrsc.aspectMask),
                                   imgrsc.baseArrayLayer + l, imgrsc.mipLevel,
                                   FALSE, FALSE)
              ELSE c2
        c4 == cl_emit(c3, [kind |-> "END_OF_LOADS"])
        c5 == cl_emit(c4, [kind |-> "BRANCH_TO_IMPLICIT_TILE_LIST"])
        c6 == emit_image_store(c5, framebuffer, image, "image", imgrsc.aspectMask,
                               imgrsc.baseArrayLayer + l, imgrsc.mipLevel,
                               FALSE, TRUE)
        c7 == IF framebuffer.vk_format = "D24_UNORM_S8_UINT"
              THEN emit_image_store(c6, framebuffer, image, "image",
                                    OtherAspect(imgrsc.aspectMask),
                                    imgrsc.baseArrayLayer + l, imgrsc.mipLevel,
                                    FALSE, FALSE)
              ELSE c6
        c8 == cl_emit(c7, [kind |-> "END_OF_TILE_MARKER"])
        c9 == cl_emit(c8, [kind |-> "RETURN_FROM_SUB_LIST"])
    IN TileListClose(j, c9, tile_list_start)

----------------------------------------------------------------------------
(* Arguments of the commands.                                              *)

ImageFormats == {"R8G8B8A8_UNORM", "B8G8R8A8_UNORM", "R16G16B16A16_SFLOAT",
                 "R32G32B32A32_SFLOAT", "R8G8B8A8_SNORM",
                 "ETC2_R8G8B8A8_UNORM_BLOCK"} \cup DepthFormats

\* slice layouts: <<tiling, padding in UIF blocks beyond the level's height>>
Layouts == {<<"RASTER", 0>>, <<"LINEARTILE", 0>>, <<"UIF_NO_XOR", 0>>,
            <<"UIF_NO_XOR", 14>>, <<"UIF_XOR", 15>>, <<"UIF_XOR", 20>>}

\* image sizes <<width, height>> of level 0
Extents == {<<1, 1>>, <<130, 70>>, <<512, 512>>}

Images ==
    { MkImage(f, "2D", e[1], e[2], 1, MaxLevels, MaxLayers, 1, lay[1], lay[2]) :
        f \in ImageFormats, e \in Extents, lay \in Layouts }
    \cup
    { MkImage(f, "3D", e[1], e[2], MaxLayers, MaxLevels, 1, 1, "UIF_NO_XOR", 0) :
        f \in {"R8G8B8A8_UNORM", "D24_UNORM_S8_UINT"}, e \in Extents }
    \cup
    { MkImage(f, "2D", 130, 70, 1, MaxLevels, MaxLayers, 4, lay[1], lay[2]) :
        f \in {"R8G8B8A8_UNORM", "D24_UNORM_S8_UINT"},
        lay \in {<<"RASTER", 0>>, <<"UIF_NO_XOR", 0>>} }

\* the single-aspect masks a copy region may name for an image
CopyAspects(image) == { {a} : a \in image.aspects }

Offsets == {[x |-> 0, y |-> 0, z |-> 0], [x |-> 4, y |-> 0, z |-> 0],
            [x |-> 0, y |-> 4, z |-> 0]}

\* number of layers a copy of mip level m of `image` may cover
LayerChoices(image, m) ==
    1..(IF image.type = "3D" THEN u_minify(image.extent.depth, m)
        ELSE image.array_size)

\* VkBufferImageCopy regions that copy a whole mip level of `image`
BufferImageRegions(image) ==
    UNION { { [bufferOffset |-> 0, bufferRowLength |-> 0, bufferImageHeight |-> 0,
               imageSubresource |-> [aspectMask |-> a, mipLevel |-> m,
                                     baseArrayLayer |-> 0,
                                     layerCount |-> IF image.type = "3D" THEN 1 ELSE n],
               imageOffset |-> o,
               imageExtent |-> [width |-> u_minify(image.extent.width, m),
                                height |-> u_minify(image.extent.height, m),
                                depth |-> IF image.type = "3D" THEN n ELSE 1]] :
              a \in CopyAspects(image), n \in LayerChoices(image, m), o \in Offsets } :
            m \in 0..(image.levels - 1) }

\* VkImageCopy regions that copy a whole mip level of an image to an image
\* of the same shape
ImageCopyRegions(dst) ==
    UNION { { [srcSubresource |-> [aspectMask |-> a, mipLevel |-> m,
                                   baseArrayLayer |-> 0,
                                   layerCount |-> IF dst.type = "3D" THEN 1 ELSE n],
               srcOffset |-> o,
               dstSubresource |-> [aspectMask |-> a, mipLevel |-> m,
                                   baseArrayLayer |-> 0,
                                   layerCount |-> IF dst.type = "3D" THEN 1 ELSE n],
               dstOffset |-> od,
               extent |-> [width |-> u_minify(dst.extent.width, m),
                           height |-> u_minify(dst.extent.height, m),
                           depth |-> IF dst.type = "3D" THEN n ELSE 1]] :
              a \in CopyAspects(dst), n \in LayerChoices(dst, m), o \in Offsets,
              od \in Offsets } :
            m \in 0..(dst.levels - 1) }

\* VK_REMAINING_MIP_LEVELS, VK_REMAINING_ARRAY_LAYERS (~0U)
VK_REMAINING == -1

\* VkImageSubresourceRange of a clear
ClearRanges(image) ==
    { [aspectMask |-> a, baseMipLevel |-> bm, levelCount |-> lc,
       baseArrayLayer |-> bl, layerCount |-> n] :
        a \in (SUBSET image.aspects) \ {{}},
        bm \in 0..(image.levels - 1),
        lc \in {1, VK_REMAINING},
        bl \in (IF image.type = "3D" THEN {0} ELSE {0, image.array_size - 1}),
        n \in {1, VK_REMAINING} }

\* the clear colors of the API: the four words their packing for the image
\* format yields, before get_hw_clear_color cuts them to the internal size
ClearColors == {<<17, 33554439, 50331657, 1073807361>>}

\* union v3dv_clear_value: z and s share the storage of color[0], color[1]
ClearValueColor(c) == [color |-> c, z |-> "bits_of_color0", s |-> c[2] % 256]
ClearValueDS(z, st) == [color |-> <<0, st, 0, 0>>, z |-> z, s |-> st]

\* get_hw_clear_color, lines 974-998: of the packed color only
\* internal_size = 4 << internal_bpp bytes are copied into the zeroed
\* hw_clear_value, that is 1, 2 or 4 words
get_hw_clear_color(color, internal_bpp) ==
    [k \in 1..4 |-> IF k <= Pow2(internal_bpp) THEN color[k] ELSE 0]

\* clear_image_tlb, lines 1008-1021: the hardware clear value of a clear
hw_clear_value(clear_value, fb_format, aspectMask) ==
    IF "COLOR" \in aspectMask
    THEN ClearValueColor(
            get_hw_clear_color(clear_value.color,
               get_internal_type_bpp_for_image_aspects(fb_format, aspectMask).bpp))
    ELSE ClearValueDS(clear_value.z, clear_value.s)

\* byte sizes of buffer copies and fills
CopySizes == {1, 2, 3, 4, 6, 520, 4100, 67108868}
FillSizes == {4, 8, 520, 4100, 67108868}

IterInit == [i |-> 0, compat_format |-> "UNINIT", level |-> 0, l |-> 0,
             min_layer |-> 0, max_layer |-> 0, max_level |-> 0,
             num_items |-> 0, src_offset |-> 0, dst_offset |-> 0,
             item_size |-> 0, format |-> "", vk_format |-> "",
             hw_clear_value |-> ClearValueDS("0.0", 0)]

NoCmd == [kind |-> "none"]

\* device->meta after the device is created: the mutex free, no pipeline
\* layout, an empty blit cache, no pipeline object allocated
NoMeta == [mtx |-> 0, playout |-> FALSE, cache |-> <<>>, pipelines |-> <<>>]

\* no thread is in get_blit_pipeline
NoCallers == << >>

\* no packing test runs
NoBit == [pc |-> "idle"]

\* nothing but the command encoder runs
OthersIdle ==
    /\ meta = NoMeta
    /\ callers = NoCallers
    /\ bit = NoBit

Init ==
    /\ pc = "idle"
    /\ cmd = NoCmd
    /\ job = NoJob
    /\ fb = NoFb
    /\ layer = 0
    /\ iter = IterInit
    /\ finished = <<>>
    /\ OthersIdle

----------------------------------------------------------------------------
(* The commands: entry points and region loops.                            *)

Layered == {"copy_image_to_buffer", "copy_buffer_to_image", "copy_image"}

\* v3dv_cmd_buffer_start_job returns NULL when the job cannot be allocated
JobAllocs == BOOLEAN

\* the common body of the *_tlb functions after the job is started:
\* v3dv_job_start_frame, setup_framebuffer_data, v3dv_job_emit_binning_flush
StartFrame(width, height, layers, fb_format, internal) ==
    LET j == v3dv_job_emit_binning_flush(
                v3dv_job_start_frame(NewJob, width, height, layers, internal.bpp))
    IN /\ job' = j
       /\ fb' = setup_framebuffer_data(fb_format, internal.type, j.frame_tiling)

\* v3dv_CmdCopyImageToBuffer is called
CmdCopyImageToBuffer ==
    /\ pc = "idle"
    /\ \E image \in Images : \E region \in BufferImageRegions(image) :
          cmd' = [kind |-> "copy_image_to_buffer", image |-> image,
                  regions |-> <<region>>]
    /\ iter' = IterInit
    /\ pc' = "region"
    /\ UNCHANGED <<job, fb, layer, finished>>
    /\ UNCHANGED other_vars

\* v3dv_CmdCopyBufferToImage is called
CmdCopyBufferToImage ==
    /\ pc = "idle"
    /\ \E image \in Images : \E region \in BufferImageRegions(image) :
          cmd' = [kind |-> "copy_buffer_to_image", image |-> image,
                  regions |-> <<region>>]
    /\ iter' = IterInit
    /\ pc' = "region"
    /\ UNCHANGED <<job, fb, layer, finished>>
    /\ UNCHANGED other_vars

\* v3dv_CmdCopyImage is called; source and destination have the same shape
CmdCopyImage ==
    /\ pc = "idle"
    /\ \E image \in Images : \E region \in ImageCopyRegions(image) :
          cmd' = [kind |-> "copy_image", image |-> image, src |-> image,
                  regions |-> <<region>>]
    /\ iter' = IterInit
    /\ pc' = "region"
    /\ UNCHANGED <<job, fb, layer, finished>>
    /\ UNCHANGED other_vars

\* One iteration of the region loop of v3dv_CmdCopyImageToBuffer and
\* v3dv_CmdCopyBufferToImage, into copy_image_to_buffer_tlb or
\* copy_buffer_to_image_tlb up to the binning flush
CopyBufferImageRegion ==
    /\ pc = "region"
    /\ cmd.kind \in {"copy_image_to_buffer", "copy_buffer_to_image"}
    /\ IF iter.i >= Len(cmd.regions)
       THEN pc' = "done" /\ UNCHANGED <<job, fb, iter>>
       ELSE LET region == cmd.regions[iter.i + 1]
                use == can_use_tlb(cmd.image, region.imageOffset, TRUE,
                                   iter.compat_format)
                internal == get_internal_type_bpp_for_image_aspects(
                               use.compat_format, region.imageSubresource.aspectMask)
                num_layers == IF cmd.image.type # "3D"
                              THEN region.imageSubresource.layerCount
                              ELSE region.imageExtent.depth
            IN IF ~use.ok
               THEN /\ pc' = "not_implemented"
                    /\ iter' = [iter EXCEPT !.compat_format = use.compat_format]
                    /\ UNCHANGED <<job, fb>>
               ELSE \E ok \in JobAllocs :
                      /\ iter' = [iter EXCEPT !.compat_format = use.compat_format,
                                              !.i = IF ok THEN @ ELSE @ + 1]
                      /\ IF ok
                         THEN /\ StartFrame(region.imageExtent.width,
                                            region.imageExtent.height,
                                            num_layers, use.compat_format, internal)
                              /\ pc' = "prologue"
                         ELSE pc' = "region" /\ UNCHANGED <<job, fb>>
    /\ UNCHANGED <<cmd, layer, finished>>
    /\ UNCHANGED other_vars

\* One iteration of the region loop of v3dv_CmdCopyImage, into copy_image_tlb
\* up to the binning flush
CopyImageRegion ==
    /\ pc = "region"
    /\ cmd.kind = "copy_image"
    /\ IF iter.i >= Len(cmd.regions)
       THEN pc' = "done" /\ UNCHANGED <<job, fb, iter>>
       ELSE LET region == cmd.regions[iter.i + 1]
                use_src == can_use_tlb(cmd.src, region.srcOffset, TRUE,
                                       iter.compat_format)
                use_dst == can_use_tlb(cmd.image, region.dstOffset, TRUE,
                                       use_src.compat_format)
                use == IF use_src.ok THEN use_dst ELSE use_src
                internal == get_internal_type_bpp_for_image_aspects(
                               use.compat_format, region.dstSubresource.aspectMask)
                num_layers == IF cmd.image.type # "3D"
                              THEN region.dstSubresource.layerCount
                              ELSE region.extent.depth
            IN IF ~use.ok
               THEN /\ pc' = "not_implemented"
                    /\ iter' = [iter EXCEPT !.compat_format = use.compat_format]
                    /\ UNCHANGED <<job, fb>>
               ELSE \E ok \in JobAllocs :
                      /\ iter' = [iter EXCEPT !.compat_format = use.compat_format,
                                              !.i = IF ok THEN @ ELSE @ + 1]
                      /\ IF ok
                         THEN /\ StartFrame(region.extent.width, region.extent.height,
                                            num_layers, use.compat_format, internal)
                              /\ pc' = "prologue"
                         ELSE pc' = "region" /\ UNCHANGED <<job, fb>>
    /\ UNCHANGED <<cmd, layer, finished>>
    /\ UNCHANGED other_vars

\* v3dv_CmdClearColorImage is called
CmdClearColorImage ==
    /\ pc = "idle"
    /\ \E image \in {im \in Images : "COLOR" \in im.aspects} :
       \E range \in ClearRanges(image) : \E c \in ClearColors :
          cmd' = [kind |-> "clear_color_image", image |-> image,
                  regions |-> <<range>>, clear_value |-> ClearValueColor(c)]
    /\ iter' = IterInit
    /\ pc' = "region"
    /\ UNCHANGED <<job, fb, layer, finished>>
    /\ UNCHANGED other_vars

\* v3dv_CmdClearDepthStencilImage is called
CmdClearDepthStencilImage ==
    /\ pc = "idle"
    /\ \E image \in {im \in Images : "COLOR" \notin im.aspects} :
       \E range \in ClearRanges(image) :
          cmd' = [kind |-> "clear_depth_stencil_image", image |-> image,
                  regions |-> <<range>>, clear_value |-> ClearValueDS("0.5", 7)]
    /\ iter' = IterInit
    /\ pc' = "region"
    /\ UNCHANGED <<job, fb, layer, finished>>
    /\ UNCHANGED other_vars

ClearKinds == {"clear_color_image", "clear_depth_stencil_image"}

\* One iteration of the range loop of v3dv_CmdClearColorImage and
\* v3dv_CmdClearDepthStencilImage, into clear_image_tlb up to its loops
ClearRange ==
    /\ pc = "region"
    /\ cmd.kind \in ClearKinds
    /\ IF iter.i >= Len(cmd.regions)
       THEN pc' = "done" /\ UNCHANGED iter
       ELSE LET range == cmd.regions[iter.i + 1]
                image == cmd.image
                origin == [x |-> 0, y |-> 0, z |-> 0]
                use == can_use_tlb(image, origin, cmd.kind = "clear_color_image",
                                   iter.compat_format)
                level_count == IF range.levelCount = VK_REMAINING
                               THEN image.levels - range.baseMipLevel
                               ELSE range.levelCount
                layer_count == IF range.layerCount = VK_REMAINING
                               THEN image.array_size - range.baseArrayLayer
                               ELSE range.layerCount
            IN IF ~use.ok
               THEN /\ pc' = "not_implemented"
                    /\ iter' = [iter EXCEPT !.compat_format = use.compat_format]
               ELSE /\ pc' = "clear_loop"
                    /\ iter' = [iter EXCEPT
                          !.compat_format = use.compat_format,
                          !.vk_format = IF cmd.kind = "clear_color_image"
                                        THEN use.compat_format ELSE image.vk_format,
                          !.hw_clear_value =
                             hw_clear_value(cmd.clear_value,
                                IF cmd.kind = "clear_color_image"
                                THEN use.compat_format ELSE image.vk_format,
                                range.aspectMask),
                          !.level = range.baseMipLevel,
                          !.max_level = range.baseMipLevel + level_count,
                          !.min_layer = IF image.type # "3D"
                                        THEN range.baseArrayLayer ELSE 0,
                          !.l = IF image.type # "3D" THEN range.baseArrayLayer ELSE 0,
                          !.max_layer = IF image.type # "3D"
                                        THEN range.baseArrayLayer + layer_count
                                        ELSE 0]
    /\ UNCHANGED <<cmd, job, fb, layer, finished>>
    /\ UNCHANGED other_vars

\* A level loop that starts every further level at layer 0.
ClearLoop_from_layer_0 ==
    /\ pc = "clear_loop"
    /\ LET image == cmd.image
           range == cmd.regions[iter.i + 1]
           max_layer == IF image.type = "3D"
                        THEN u_minify(image.extent.depth, iter.level)
                        ELSE iter.max_layer
           internal == get_internal_type_bpp_for_image_aspects(iter.vk_format,
                                                               range.aspectMask)
       IN IF iter.level >= iter.max_level
          THEN /\ pc' = "region"
               /\ iter' = [iter EXCEPT !.i = @ + 1]
               /\ UNCHANGED <<job, fb>>
          ELSE IF iter.l >= max_layer
          THEN /\ pc' = "clear_loop"
               /\ iter' = [iter EXCEPT !.level = @ + 1, !.l = 0,
                                       !.max_layer = max_layer]
               /\ UNCHANGED <<job, fb>>
          ELSE \E ok \in JobAllocs :
                 IF ok
                 THEN /\ StartFrame(u_minify(image.extent.width, iter.level),
                                    u_minify(image.extent.height, iter.level),
                                    1, iter.vk_format, internal)
                      /\ iter' = [iter EXCEPT !.max_layer = max_layer]
                      /\ pc' = "prologue"
                 ELSE /\ pc' = "region"
                      /\ iter' = [iter EXCEPT !.i = @ + 1, !.max_layer = max_layer]
                      /\ UNCHANGED <<job, fb>>
    /\ UNCHANGED <<cmd, layer, finished>>
    /\ UNCHANGED other_vars

\* clear_image_tlb, lines 1045-1063: the level and layer loops up to the
\* binning flush of the next job
ClearLoop ==
    /\ pc = "clear_loop"
    /\ LET image == cmd.image
           range == cmd.regions[iter.i + 1]
           max_layer == IF image.type = "3D"
                        THEN u_minify(image.extent.depth, iter.level)
                        ELSE iter.max_layer
           internal == get_internal_type_bpp_for_image_aspects(iter.vk_format,
                                                               range.aspectMask)
       IN IF iter.level >= iter.max_level
          THEN /\ pc' = "region"
               /\ iter' = [iter EXCEPT !.i = @ + 1]
               /\ UNCHANGED <<job, fb>>
          ELSE IF iter.l >= max_layer
          THEN /\ pc' = "clear_loop"
               /\ iter' = [iter EXCEPT !.level = @ + 1, !.l = iter.min_layer,
                                       !.max_layer = max_layer]
               /\ UNCHANGED <<job, fb>>
          ELSE \E ok \in JobAllocs :
                 IF ok
                 THEN /\ StartFrame(u_minify(image.extent.width, iter.level),
                                    u_minify(image.extent.height, iter.level),
                                    1, iter.vk_format, internal)
                      /\ iter' = [iter EXCEPT !.max_layer = max_layer]
                      /\ pc' = "prologue"
                 ELSE /\ pc' = "region"
                      /\ iter' = [iter EXCEPT !.i = @ + 1, !.max_layer = max_layer]
                      /\ UNCHANGED <<job, fb>>
    /\ UNCHANGED <<cmd, layer, finished>>
    /\ UNCHANGED other_vars

\* A halving loop that does not cap the width.
RECURSIVE SizeLoop_no_cap(_, _)
SizeLoop_no_cap(w, h) ==
    IF w % 2 = 0 /\ w > 2 * h
    THEN SizeLoop_no_cap(w \div 2, h * 2)
    ELSE <<w, h>>

\* A halving loop that goes on while the width is at least twice the height.
RECURSIVE SizeLoop_at_least(_, _)
SizeLoop_at_least(w, h) ==
    IF w > 4096 \/ (w % 2 = 0 /\ w >= 2 * h)
    THEN SizeLoop_at_least(w \div 2, h * 2)
    ELSE <<w, h>>

\* framebuffer_size_for_pixel_count, lines 1219-1222: the halving loop
RECURSIVE SizeLoop(_, _)
SizeLoop(w, h) ==
    IF w > 4096 \/ (w % 2 = 0 /\ w > 2 * h)
    THEN SizeLoop(w \div 2, h * 2)
    ELSE <<w, h>>

\* A size computation without the branch for counts above 4096 x 4096.
framebuffer_size_for_pixel_count_uncapped(num_pixels) ==
    SizeLoop(num_pixels, 1)

\* framebuffer_size_for_pixel_count
framebuffer_size_for_pixel_count(num_pixels) ==
    IF num_pixels > 4096 * 4096
    THEN <<4096, 4096>>
    ELSE SizeLoop(num_pixels, 1)

\* v3dv_CmdCopyBuffer is called
CmdCopyBuffer ==
    /\ pc = "idle"
    /\ \E size \in CopySizes : \E dst \in {0, 16} :
          cmd' = [kind |-> "copy_buffer",
                  regions |-> <<[srcOffset |-> 0, dstOffset |-> dst, size |-> size]>>]
    /\ iter' = IterInit
    /\ pc' = "region"
    /\ UNCHANGED <<job, fb, layer, finished>>
    /\ UNCHANGED other_vars

\* An item choice that copies sizes of residue 2 in 4-byte items.
CopyItem_residue_2_as_4(size) ==
    CASE size % 4 \in {0, 2} -> [item_size |-> 4, format |-> "RGBA8UI",
                                 vk_format |-> "R8G8B8A8_UINT"]
      [] OTHER -> [item_size |-> 1, format |-> "R8UI", vk_format |-> "R8_UINT"]

\* copy_buffer, lines 1247-1265: the item size and format of a copy
CopyItem(size) ==
    CASE size % 4 = 0 -> [item_size |-> 4, format |-> "RGBA8UI",
                          vk_format |-> "R8G8B8A8_UINT"]
      [] size % 4 = 2 -> [item_size |-> 2, format |-> "RG8UI",
                          vk_format |-> "R8G8_UINT"]
      [] OTHER -> [item_size |-> 1, format |-> "R8UI", vk_format |-> "R8_UINT"]

\* One iteration of the region loop of v3dv_CmdCopyBuffer, into copy_buffer
\* up to its loop
CopyBufferRegion ==
    /\ pc = "region"
    /\ cmd.kind = "copy_buffer"
    /\ IF iter.i >= Len(cmd.regions)
       THEN pc' = "done" /\ UNCHANGED iter
       ELSE LET region == cmd.regions[iter.i + 1]
                item == CopyItem(region.size)
            IN /\ pc' = "copy_loop"
               /\ iter' = [iter EXCEPT !.item_size = item.item_size,
                                       !.format = item.format,
                                       !.vk_format = item.vk_format,
                                       !.num_items = region.size \div item.item_size,
                                       !.src_offset = region.srcOffset,
                                       !.dst_offset = region.dstOffset]
    /\ UNCHANGED <<cmd, job, fb, layer, finished>>
    /\ UNCHANGED other_vars

\* the commands that run copy_buffer
BufferCopyKinds == {"copy_buffer", "update_buffer"}

\* data sizes of vkCmdUpdateBuffer: multiples of 4 up to 65536
UpdateSizes == {4, 8, 4100, 16388}

\* v3dv_CmdUpdateBuffer is called, up to the loop of copy_buffer: the staging
\* BO is allocated and mapped, either of which may fail, and filled
CmdUpdateBuffer ==
    /\ pc = "idle"
    /\ \E size \in UpdateSizes : \E dst \in {0, 16} :
       \E alloc_ok \in BOOLEAN : \E map_ok \in BOOLEAN :
          LET item == CopyItem(size) IN
          /\ cmd' = [kind |-> "update_buffer",
                     regions |-> <<[srcOffset |-> 0, dstOffset |-> dst,
                                    size |-> size]>>,
                     src_bo |-> IF alloc_ok THEN "vkCmdUpdateBuffer" ELSE "none"]
          /\ IF alloc_ok /\ map_ok
             THEN /\ pc' = "copy_loop"
                  /\ iter' = [IterInit EXCEPT !.item_size = item.item_size,
                                              !.format = item.format,
                                              !.vk_format = item.vk_format,
                                              !.num_items = size \div item.item_size,
                                              !.src_offset = 0,
                                              !.dst_offset = dst]
             ELSE /\ pc' = "done"
                  /\ iter' = IterInit
    /\ UNCHANGED <<job, fb, layer, finished>>
    /\ UNCHANGED other_vars

\* v3dv_CmdUpdateBuffer, line 1362: copy_buffer returned its last job, and
\* the staging BO joins the extra BOs of that job
AddExtraBo ==
    /\ pc = "add_extra_bo"
    /\ finished' = [finished EXCEPT ![Len(finished)].extra_bos = @ \cup {cmd.src_bo}]
    /\ pc' = "done"
    /\ UNCHANGED <<cmd, job, fb, layer, iter>>
    /\ UNCHANGED other_vars

\* VK_WHOLE_SIZE (~0ULL)
VK_WHOLE_SIZE == VK_REMAINING

\* the fills recorded: a size and a buffer that holds it, or VK_WHOLE_SIZE
\* and a buffer of 18, 4096 or 4102 bytes; all below 2^32, so that the
\* uint32_t parameters of fill_buffer hold them
FillArguments ==
    { [dstOffset |-> offset, size |-> size, buffer_size |-> offset + size] :
         offset \in {0, 16}, size \in FillSizes }
    \cup
    { [dstOffset |-> offset, size |-> VK_WHOLE_SIZE, buffer_size |-> b] :
         offset \in {0, 16}, b \in {18, 4096, 4102} }

\* v3dv_CmdFillBuffer, lines 1488-1491: the size filled; VK_WHOLE_SIZE is the
\* rest of the buffer, cut to a multiple of 4
FillSize(a) ==
    IF a.size = VK_WHOLE_SIZE
    THEN (a.buffer_size - a.dstOffset) - ((a.buffer_size - a.dstOffset) % 4)
    ELSE a.size

\* v3dv_CmdFillBuffer is called, into fill_buffer up to its loop; cmd.size
\* is the size handed to fill_buffer, whose asserts (lines 1438-1439) stop a
\* fill of nothing, of a size that is no multiple of 4, or past the buffer
CmdFillBuffer ==
    /\ pc = "idle"
    /\ \E a \in FillArguments :
          LET size == FillSize(a)
          IN /\ cmd' = [kind |-> "fill_buffer", offset |-> a.dstOffset,
                        size |-> size, data |-> 43981,
                        size_argument |-> a.size, buffer_size |-> a.buffer_size]
             /\ iter' = [IterInit EXCEPT !.item_size = 4, !.num_items = size \div 4,
                                         !.dst_offset = a.dstOffset,
                                         !.vk_format = "R8G8B8A8_UINT"]
             /\ pc' = IF size > 0 /\ size % 4 = 0
                         /\ a.dstOffset + size <= a.buffer_size
                      THEN "copy_loop" ELSE "invalid_fill"
    /\ UNCHANGED <<job, fb, layer, finished>>
    /\ UNCHANGED other_vars

\* A job loop that starts the frame before it looks at what start_job
\* returned.
CopyLoop_frame_before_check ==
    /\ pc = "copy_loop"
    /\ IF iter.num_items > 0
       THEN \E ok \in JobAllocs :
              IF ok
              THEN LET size == framebuffer_size_for_pixel_count(iter.num_items)
                   IN /\ StartFrame(size[1], size[2], 1, iter.vk_format,
                                    [type |-> "8UI", bpp |-> V3D_INTERNAL_BPP_32])
                      /\ pc' = "prologue"
                      /\ UNCHANGED iter
              ELSE LET size == framebuffer_size_for_pixel_count(iter.num_items)
                   IN /\ StartFrame(size[1], size[2], 1, iter.vk_format,
                                    [type |-> "8UI", bpp |-> V3D_INTERNAL_BPP_32])
                      /\ pc' = IF cmd.kind = "copy_buffer" THEN "region" ELSE "done"
                      /\ iter' = [iter EXCEPT !.i = @ + 1]
       ELSE /\ pc' = CASE cmd.kind = "copy_buffer" -> "region"
                       [] cmd.kind = "update_buffer" -> "add_extra_bo"
                       [] OTHER -> "done"
            /\ iter' = [iter EXCEPT !.i = @ + 1]
            /\ UNCHANGED <<job, fb>>
    /\ UNCHANGED <<cmd, layer, finished>>
    /\ UNCHANGED other_vars

\* copy_buffer, lines 1273-1287, and fill_buffer, lines 1445-1459: the head
\* of the job loop up to the binning flush
CopyLoop ==
    /\ pc = "copy_loop"
    /\ IF iter.num_items > 0
       THEN \E ok \in JobAllocs :
              IF ok
              THEN LET size == framebuffer_size_for_pixel_count(iter.num_items)
                   IN /\ StartFrame(size[1], size[2], 1, iter.vk_format,
                                    [type |-> "8UI", bpp |-> V3D_INTERNAL_BPP_32])
                      /\ pc' = "prologue"
                      /\ UNCHANGED iter
              ELSE /\ pc' = IF cmd.kind = "copy_buffer" THEN "region" ELSE "done"
                   /\ iter' = [iter EXCEPT !.i = @ + 1]
                   /\ UNCHANGED <<job, fb>>
       ELSE /\ pc' = CASE cmd.kind = "copy_buffer" -> "region"
                       [] cmd.kind = "update_buffer" -> "add_extra_bo"
                       [] OTHER -> "done"
            /\ iter' = [iter EXCEPT !.i = @ + 1]
            /\ UNCHANGED <<job, fb>>
    /\ UNCHANGED <<cmd, layer, finished>>
    /\ UNCHANGED other_vars

----------------------------------------------------------------------------
(* The emit_*_rcl functions, one action per call they make.                *)

\* the clear info each emit_*_rcl hands to the prologue: emit_clear_image_rcl
\* (lines 959-968), emit_fill_buffer_rcl (lines 1412-1425), NULL elsewhere
ClearInfoOf(c, it) ==
    IF c.kind \in ClearKinds
    THEN ClearInfo(it.hw_clear_value, c.image, c.regions[it.i + 1].aspectMask,
                   it.l, it.level)
    ELSE IF c.kind = "fill_buffer"
    THEN ClearInfo(ClearValueColor(<<c.data, 0, 0, 0>>), NullImage, {"COLOR"}, 0, 0)
    ELSE NoClearInfo

\* A prologue call that never hands over the clear info.
Prologue_no_clear_info ==
    /\ pc = "prologue"
    /\ job' = emit_rcl_prologue(job, fb.internal_type, NoClearInfo)
    /\ layer' = 0
    /\ pc' = IF cmd.kind \in Layered THEN "layer_loop" ELSE "frame_setup"
    /\ UNCHANGED <<cmd, fb, iter, finished>>
    /\ UNCHANGED other_vars

\* emit_*_rcl: the call of emit_rcl_prologue
Prologue ==
    /\ pc = "prologue"
    /\ job' = emit_rcl_prologue(job, fb.internal_type, ClearInfoOf(cmd, iter))
    /\ layer' = 0
    /\ pc' = IF cmd.kind \in Layered THEN "layer_loop" ELSE "frame_setup"
    /\ UNCHANGED <<cmd, fb, iter, finished>>
    /\ UNCHANGED other_vars

\* A layer loop that stops one layer short.
LayerLoop_short ==
    /\ pc = "layer_loop"
    /\ pc' = IF layer + 1 < job.frame_tiling.layers THEN "frame_setup"
             ELSE "end_of_rendering"
    /\ UNCHANGED <<cmd, job, fb, layer, iter, finished>>
    /\ UNCHANGED other_vars

\* emit_copy_image_to_buffer_rcl, emit_copy_image_rcl and
\* emit_copy_buffer_to_image_rcl: the test of the layer loop
LayerLoop ==
    /\ pc = "layer_loop"
    /\ pc' = IF layer < job.frame_tiling.layers THEN "frame_setup"
             ELSE "end_of_rendering"
    /\ UNCHANGED <<cmd, job, fb, layer, iter, finished>>
    /\ UNCHANGED other_vars

\* the call of emit_frame_setup: with the loop's layer and no clear value in
\* the copies, with layer 0 in the clears, the buffer copy and the fill
FrameSetup ==
    /\ pc = "frame_setup"
    /\ job' = emit_frame_setup(job, IF cmd.kind \in Layered THEN layer ELSE 0,
                               ClearInfoOf(cmd, iter).present)
    /\ pc' = "per_tile_list"
    /\ UNCHANGED <<cmd, fb, layer, iter, finished>>
    /\ UNCHANGED other_vars

\* emit_copy_layer_to_buffer: the per-tile list of an image-to-buffer copy
CopyLayerToBufferPerTileList ==
    /\ pc = "per_tile_list"
    /\ cmd.kind = "copy_image_to_buffer"
    /\ job' = emit_copy_layer_to_buffer_per_tile_list(job, fb, cmd.image, layer,
                                                      cmd.regions[iter.i + 1])
    /\ pc' = "supertiles"
    /\ UNCHANGED <<cmd, fb, layer, iter, finished>>
    /\ UNCHANGED other_vars

\* emit_copy_buffer_to_layer: the per-tile list of a buffer-to-image copy
CopyBufferToLayerPerTileList ==
    /\ pc = "per_tile_list"
    /\ cmd.kind = "copy_buffer_to_image"
    /\ job' = emit_copy_buffer_to_layer_per_tile_list(job, fb, cmd.image, layer,
                                                      cmd.regions[iter.i + 1])
    /\ pc' = "supertiles"
    /\ UNCHANGED <<cmd, fb, layer, iter, finished>>
    /\ UNCHANGED other_vars

\* emit_copy_image_layer: the per-tile list of an image-to-image copy
CopyImageLayerPerTileList ==
    /\ pc = "per_tile_list"
    /\ cmd.kind = "copy_image"
    /\ job' = emit_copy_image_layer_per_tile_list(job, fb, cmd.image, cmd.src, layer,
                                                  cmd.regions[iter.i + 1])
    /\ pc' = "supertiles"
    /\ UNCHANGED <<cmd, fb, layer, iter, finished>>
    /\ UNCHANGED other_vars

\* emit_clear_image: the per-tile list of an image clear
ClearImagePerTileList ==
    /\ pc = "per_tile_list"
    /\ cmd.kind \in ClearKinds
    /\ job' = emit_clear_image_per_tile_list(job, fb, cmd.image,
                                             cmd.regions[iter.i + 1].aspectMask,
                                             iter.l, iter.level)
    /\ pc' = "supertiles"
    /\ UNCHANGED <<cmd, fb, layer, iter, finished>>
    /\ UNCHANGED other_vars

\* emit_copy_buffer: the per-tile list of a buffer copy
CopyBufferPerTileList ==
    /\ pc = "per_tile_list"
    /\ cmd.kind \in BufferCopyKinds
    /\ job' = emit_copy_buffer_per_tile_list(job, iter.dst_offset, iter.src_offset,
                                             job.frame_tiling.width * 4, iter.format)
    /\ pc' = "supertiles"
    /\ UNCHANGED <<cmd, fb, layer, iter, finished>>
    /\ UNCHANGED other_vars

\* emit_fill_buffer: the per-tile list of a buffer fill
FillBufferPerTileList ==
    /\ pc = "per_tile_list"
    /\ cmd.kind = "fill_buffer"
    /\ job' = emit_fill_buffer_per_tile_list(job, iter.dst_offset,
                                             job.frame_tiling.width * 4)
    /\ pc' = "supertiles"
    /\ UNCHANGED <<cmd, fb, layer, iter, finished>>
    /\ UNCHANGED other_vars

\* the call of emit_supertile_coordinates, and the step of the layer loop
SupertileCoordinates ==
    /\ pc = "supertiles"
    /\ job' = emit_supertile_coordinates(job, fb)
    /\ layer' = IF cmd.kind \in Layered THEN layer + 1 ELSE layer
    /\ pc' = IF cmd.kind \in Layered THEN "layer_loop" ELSE "end_of_rendering"
    /\ UNCHANGED <<cmd, fb, iter, finished>>
    /\ UNCHANGED other_vars

\* emit_*_rcl: cl_emit(rcl, END_OF_RENDERING, end)
EndOfRendering ==
    /\ pc = "end_of_rendering"
    /\ job' = [job EXCEPT !.rcl = cl_emit(@, [kind |-> "END_OF_RENDERING"])]
    /\ pc' = "finish"
    /\ UNCHANGED <<cmd, fb, layer, iter, finished>>
    /\ UNCHANGED other_vars

\* A finish_job that records the job and leaves it open.
FinishJob_leaves_open ==
    /\ pc = "finish"
    /\ finished' = Append(finished, [frame_tiling |-> job.frame_tiling,
                                     level |-> iter.level, l |-> iter.l,
                                     src_offset |-> iter.src_offset,
                                     dst_offset |-> iter.dst_offset,
                                     extra_bos |-> {}])
    /\ job' = job
    /\ LET items_copied == job.frame_tiling.width * job.frame_tiling.height
           bytes_copied == items_copied * iter.item_size
       IN CASE cmd.kind \in Layered ->
                 pc' = "region" /\ iter' = [iter EXCEPT !.i = @ + 1]
            [] cmd.kind \in ClearKinds ->
                 pc' = "clear_loop" /\ iter' = [iter EXCEPT !.l = @ + 1]
            [] OTHER ->
                 /\ pc' = "copy_loop"
                 /\ iter' = [iter EXCEPT
                       !.num_items = @ - items_copied,
                       !.src_offset = IF cmd.kind \in BufferCopyKinds
                                      THEN @ + bytes_copied ELSE @,
                       !.dst_offset = @ + bytes_copied]
    /\ UNCHANGED <<cmd, fb, layer>>
    /\ UNCHANGED other_vars

\* A loop step that moves the destination offset on by the items copied.
FinishJob_offset_in_items ==
    /\ pc = "finish"
    /\ finished' = Append(finished, [frame_tiling |-> job.frame_tiling,
                                     level |-> iter.level, l |-> iter.l,
                                     src_offset |-> iter.src_offset,
                                     dst_offset |-> iter.dst_offset,
                                     extra_bos |-> {}])
    /\ job' = [NoJob EXCEPT !.frame_tiling = job.frame_tiling]
    /\ LET items_copied == job.frame_tiling.width * job.frame_tiling.height
           bytes_copied == items_copied * iter.item_size
       IN CASE cmd.kind \in Layered ->
                 pc' = "region" /\ iter' = [iter EXCEPT !.i = @ + 1]
            [] cmd.kind \in ClearKinds ->
                 pc' = "clear_loop" /\ iter' = [iter EXCEPT !.l = @ + 1]
            [] OTHER ->
                 /\ pc' = "copy_loop"
                 /\ iter' = [iter EXCEPT
                       !.num_items = @ - items_copied,
                       !.src_offset = IF cmd.kind \in BufferCopyKinds
                                      THEN @ + bytes_copied ELSE @,
                       !.dst_offset = @ + items_copied]
    /\ UNCHANGED <<cmd, fb, layer>>
    /\ UNCHANGED other_vars

\* A loop step that takes one item less than the job covered off the count.
FinishJob_one_short ==
    /\ pc = "finish"
    /\ finished' = Append(finished, [frame_tiling |-> job.frame_tiling,
                                     level |-> iter.level, l |-> iter.l,
                                     src_offset |-> iter.src_offset,
                                     dst_offset |-> iter.dst_offset,
                                     extra_bos |-> {}])
    /\ job' = [NoJob EXCEPT !.frame_tiling = job.frame_tiling]
    /\ LET items_copied == job.frame_tiling.width * job.frame_tiling.height
           bytes_copied == items_copied * iter.item_size
       IN CASE cmd.kind \in Layered ->
                 pc' = "region" /\ iter' = [iter EXCEPT !.i = @ + 1]
            [] cmd.kind \in ClearKinds ->
                 pc' = "clear_loop" /\ iter' = [iter EXCEPT !.l = @ + 1]
            [] OTHER ->
                 /\ pc' = "copy_loop"
                 /\ iter' = [iter EXCEPT
                       !.num_items = @ - items_copied + 1,
                       !.src_offset = IF cmd.kind \in BufferCopyKinds
                                      THEN @ + bytes_copied ELSE @,
                       !.dst_offset = @ + bytes_copied]
    /\ UNCHANGED <<cmd, fb, layer>>
    /\ UNCHANGED other_vars

\* A loop step that takes the bytes copied off the item count.
FinishJob_bytes ==
    /\ pc = "finish"
    /\ finished' = Append(finished, [frame_tiling |-> job.frame_tiling,
                                     level |-> iter.level, l |-> iter.l,
                                     src_offset |-> iter.src_offset,
                                     dst_offset |-> iter.dst_offset,
                                     extra_bos |-> {}])
    /\ job' = [NoJob EXCEPT !.frame_tiling = job.frame_tiling]
    /\ LET items_copied == job.frame_tiling.width * job.frame_tiling.height
           bytes_copied == items_copied * iter.item_size
       IN CASE cmd.kind \in Layered ->
                 pc' = "region" /\ iter' = [iter EXCEPT !.i = @ + 1]
            [] cmd.kind \in ClearKinds ->
                 pc' = "clear_loop" /\ iter' = [iter EXCEPT !.l = @ + 1]
            [] OTHER ->
                 /\ pc' = "copy_loop"
                 /\ iter' = [iter EXCEPT
                       !.num_items = @ - bytes_copied,
                       !.src_offset = IF cmd.kind \in BufferCopyKinds
                                      THEN @ + bytes_copied ELSE @,
                       !.dst_offset = @ + bytes_copied]
    /\ UNCHANGED <<cmd, fb, layer>>
    /\ UNCHANGED other_vars

\* v3dv_cmd_buffer_finish_job, and the step of the caller's loop: the next
\* region of a copy, the next layer of a clear, the items and offsets of a
\* buffer copy (lines 1294-1298) or fill (lines 1465-1468)
FinishJob ==
    /\ pc = "finish"
    /\ finished' = Append(finished, [frame_tiling |-> job.frame_tiling,
                                     level |-> iter.level, l |-> iter.l,
                                     src_offset |-> iter.src_offset,
                                     dst_offset |-> iter.dst_offset,
                                     extra_bos |-> {}])
    /\ job' = [NoJob EXCEPT !.frame_tiling = job.frame_tiling]
    /\ LET items_copied == job.frame_tiling.width * job.frame_tiling.height
           bytes_copied == items_copied * iter.item_size
       IN CASE cmd.kind \in Layered ->
                 pc' = "region" /\ iter' = [iter EXCEPT !.i = @ + 1]
            [] cmd.kind \in ClearKinds ->
                 pc' = "clear_loop" /\ iter' = [iter EXCEPT !.l = @ + 1]
            [] OTHER ->
                 /\ pc' = "copy_loop"
                 /\ iter' = [iter EXCEPT
                       !.num_items = @ - items_copied,
                       !.src_offset = IF cmd.kind \in BufferCopyKinds
                                      THEN @ + bytes_copied ELSE @,
                       !.dst_offset = @ + bytes_copied]
    /\ UNCHANGED <<cmd, fb, layer>>
    /\ UNCHANGED other_vars

Next ==
    \/ CmdCopyImageToBuffer
    \/ CmdCopyBufferToImage
    \/ CmdCopyImage
    \/ CmdClearColorImage
    \/ CmdClearDepthStencilImage
    \/ CmdCopyBuffer
    \/ CmdFillBuffer
    \/ CmdUpdateBuffer
    \/ AddExtraBo
    \/ CopyBufferImageRegion
    \/ CopyImageRegion
    \/ ClearRange
    \/ ClearLoop
    \/ CopyBufferRegion
    \/ CopyLoop
    \/ Prologue
    \/ LayerLoop
    \/ FrameSetup
    \/ CopyLayerToBufferPerTileList
    \/ CopyBufferToLayerPerTileList
    \/ CopyImageLayerPerTileList
    \/ ClearImagePerTileList
    \/ CopyBufferPerTileList
    \/ FillBufferPerTileList
    \/ SupertileCoordinates
    \/ EndOfRendering
    \/ FinishJob

Spec == Init /\ [][Next]_vars

----------------------------------------------------------------------------
(* Observations of the command lists used by the properties below.         *)

KindsOf(recs) == [k \in 1..Len(recs) |-> recs[k].kind]

\* the indices of the packets of `recs` whose kind is in `kinds`, in order
IndicesOf(recs, kinds) == { k \in 1..Len(recs) : recs[k].kind \in kinds }

\* the n-th smallest element (n >= 1) of a set of indices
NthOf(S, n) == CHOOSE k \in S : Cardinality({m \in S : m <= k}) = n

PrologueKinds == {"TILE_RENDERING_MODE_CFG_COMMON",
                  "TILE_RENDERING_MODE_CFG_CLEAR_COLORS_PART1",
                  "TILE_RENDERING_MODE_CFG_CLEAR_COLORS_PART2",
                  "TILE_RENDERING_MODE_CFG_CLEAR_COLORS_PART3",
                  "TILE_RENDERING_MODE_CFG_COLOR",
                  "TILE_RENDERING_MODE_CFG_ZS_CLEAR_VALUES",
                  "TILE_LIST_INITIAL_BLOCK_SIZE"}

FrameSetupKinds == {"MULTICORE_RENDERING_TILE_LIST_SET_BASE",
                    "MULTICORE_RENDERING_SUPERTILE_CFG",
                    "TILE_COORDINATES", "END_OF_LOADS",
                    "STORE_TILE_BUFFER_GENERAL", "CLEAR_TILE_BUFFERS",
                    "END_OF_TILE_MARKER", "FLUSH_VCD_CACHE"}

\* the phase of the render control list a packet belongs to
PhaseOf(kind) ==
    CASE kind \in PrologueKinds -> "prologue"
      [] kind \in FrameSetupKinds -> "frame_setup"
      [] kind = "START_ADDRESS_OF_GENERIC_TILE_LIST" -> "tile_list"
      [] kind = "SUPERTILE_COORDINATES" -> "supertiles"
      [] kind = "END_OF_RENDERING" -> "end"
      [] OTHER -> "other"

\* the phases of a render control list, runs of one phase counted once
RunStarts(recs) ==
    { k \in 1..Len(recs) :
         k = 1 \/ PhaseOf(recs[k].kind) # PhaseOf(recs[k - 1].kind) }
PhasesOf(recs) ==
    [i \in 1..Cardinality(RunStarts(recs)) |->
        PhaseOf(recs[NthOf(RunStarts(recs), i)].kind)]

\* the phases the protocol requires of a job of n layers
RECURSIVE LayerPhases(_)
LayerPhases(n) ==
    IF n = 0 THEN <<>>
    ELSE <<"frame_setup", "tile_list", "supertiles">> \o LayerPhases(n - 1)

----------------------------------------------------------------------------
(* C1 *)

\* C1: when a job's render control list is complete (the job is about to be
\* finished), it is the prologue once, then for each layer 0..layers-1 in
\* increasing order one frame setup, one START_ADDRESS_OF_GENERIC_TILE_LIST
\* and one block of SUPERTILE_COORDINATES, then END_OF_RENDERING once, as
\* the last packet.
C1_RclProtocol ==
    pc = "finish" =>
      LET recs == job.rcl.recs
          n == job.frame_tiling.layers
          bases == IndicesOf(recs, {"MULTICORE_RENDERING_TILE_LIST_SET_BASE"})
          tl == job.frame_tiling
      IN /\ PhasesOf(recs) = <<"prologue">> \o LayerPhases(n) \o <<"end">>
         /\ Cardinality(IndicesOf(recs, {"TILE_RENDERING_MODE_CFG_COMMON"})) = 1
         /\ Cardinality(IndicesOf(recs, {"TILE_LIST_INITIAL_BLOCK_SIZE"})) = 1
         /\ Cardinality(IndicesOf(recs, {"FLUSH_VCD_CACHE"})) = n
         /\ Cardinality(IndicesOf(recs, {"START_ADDRESS_OF_GENERIC_TILE_LIST"})) = n
         /\ Cardinality(bases) = n
         /\ \A k \in 1..n :
               recs[NthOf(bases, k)].address.offset =
                  64 * (k - 1) * tl.draw_tiles_x * tl.draw_tiles_y
         /\ Cardinality(IndicesOf(recs, {"END_OF_RENDERING"})) = 1
         /\ recs[Len(recs)].kind = "END_OF_RENDERING"

\* a complete render control list of a copy of several layers
C1_Witness ==
    /\ pc = "finish"
    /\ cmd.kind = "copy_image_to_buffer"
    /\ job.frame_tiling.layers = MaxLayers
    /\ Cardinality(IndicesOf(job.rcl.recs, {"SUPERTILE_COORDINATES"})) > MaxLayers

----------------------------------------------------------------------------
(* C2 *)

\* the automaton of a per-tile-list body: 0 before TILE_COORDINATES_IMPLICIT,
\* 1 in the loads, 2 before the branch, 3 before the first store, 4 in the
\* stores, 5 before RETURN_FROM_SUB_LIST; -1 rejects
BodyStep(st, kind) ==
    CASE st = 0 /\ kind = "TILE_COORDINATES_IMPLICIT" -> 1
      [] st = 1 /\ kind = "LOAD_TILE_BUFFER_GENERAL" -> 1
      [] st = 1 /\ kind = "END_OF_LOADS" -> 2
      [] st = 2 /\ kind = "BRANCH_TO_IMPLICIT_TILE_LIST" -> 3
      [] st = 3 /\ kind = "STORE_TILE_BUFFER_GENERAL" -> 4
      [] st = 4 /\ kind = "STORE_TILE_BUFFER_GENERAL" -> 4
      [] st = 4 /\ kind = "END_OF_TILE_MARKER" -> 5
      [] st = 5 /\ kind = "RETURN_FROM_SUB_LIST" -> 0
      [] OTHER -> -1

RECURSIVE BodyRun(_, _, _)
BodyRun(recs, k, st) ==
    IF k > Len(recs) THEN st
    ELSE BodyRun(recs, k + 1, BodyStep(st, recs[k].kind))

\* the number of per-tile-list bodies the open job must hold at this point
BodiesDue ==
    IF pc \in {"supertiles", "end_of_rendering", "finish"}
    THEN (IF cmd.kind \in Layered /\ pc = "supertiles" THEN layer + 1
          ELSE IF cmd.kind \in Layered THEN layer ELSE 1)
    ELSE IF pc \in {"layer_loop", "frame_setup", "per_tile_list"}
    THEN (IF cmd.kind \in Layered THEN layer ELSE 0)
    ELSE 0

\* C2: the indirect list of a job is a sequence of whole bodies, each being
\* TILE_COORDINATES_IMPLICIT, zero or more loads, END_OF_LOADS,
\* BRANCH_TO_IMPLICIT_TILE_LIST, one or more stores, END_OF_TILE_MARKER,
\* RETURN_FROM_SUB_LIST; every per_tile_list emitter appends one such body.
C2_BodyOrder ==
    job.open =>
      /\ BodyRun(job.indirect.recs, 1, 0) = 0
      /\ Cardinality(IndicesOf(job.indirect.recs, {"RETURN_FROM_SUB_LIST"}))
            = BodiesDue

\* a body with two loads and two stores (single-aspect upload to D24S8)
C2_Witness ==
    /\ pc = "supertiles"
    /\ cmd.kind = "copy_buffer_to_image"
    /\ Cardinality(IndicesOf(job.indirect.recs, {"LOAD_TILE_BUFFER_GENERAL"})) = 2
    /\ Cardinality(IndicesOf(job.indirect.recs, {"STORE_TILE_BUFFER_GENERAL"})) = 2

----------------------------------------------------------------------------
(* C3 *)

\* the packets of the k-th body of the indirect list, and its range record
BodyFirst(k) == NthOf(IndicesOf(job.indirect.recs, {"TILE_COORDINATES_IMPLICIT"}), k)
BodyLast(k) == NthOf(IndicesOf(job.indirect.recs, {"RETURN_FROM_SUB_LIST"}), k)
BodyRange(k) ==
    job.rcl.recs[NthOf(IndicesOf(job.rcl.recs,
                                 {"START_ADDRESS_OF_GENERIC_TILE_LIST"}), k)]
NumRanges ==
    Cardinality(IndicesOf(job.rcl.recs, {"START_ADDRESS_OF_GENERIC_TILE_LIST"}))

\* C3: every START_ADDRESS_OF_GENERIC_TILE_LIST has for `start` the address
\* of the first packet of its body and for `end` the address just after the
\* body's RETURN_FROM_SUB_LIST; the body's packets lie in that one range,
\* and the ranges of the layers of a job do not overlap.
C3_TileListRange ==
    job.open =>
      LET ind == job.indirect.recs IN
      /\ NumRanges = Cardinality(IndicesOf(ind, {"RETURN_FROM_SUB_LIST"}))
      /\ \A k \in 1..NumRanges :
            LET r == BodyRange(k) IN
            /\ r.start = [bo |-> ind[BodyFirst(k)].at_bo,
                          offset |-> ind[BodyFirst(k)].at]
            /\ r.end = [bo |-> ind[BodyLast(k)].at_bo,
                        offset |-> ind[BodyLast(k)].at
                                   + cl_packet_length("RETURN_FROM_SUB_LIST")]
            /\ r.start.bo = r.end.bo
            /\ r.start.offset < r.end.offset
            /\ \A m \in BodyFirst(k)..BodyLast(k) :
                  /\ ind[m].at_bo = r.start.bo
                  /\ r.start.offset <= ind[m].at
                  /\ ind[m].at + cl_packet_length(ind[m].kind) <= r.end.offset
      /\ \A k1, k2 \in 1..NumRanges :
            k1 < k2 =>
               \/ BodyRange(k1).start.bo # BodyRange(k2).start.bo
               \/ BodyRange(k1).end.offset <= BodyRange(k2).start.offset
               \/ BodyRange(k2).end.offset <= BodyRange(k1).start.offset

\* three layers: two bodies share a BO, the third starts a fresh one
C3_Witness ==
    /\ job.open
    /\ NumRanges = 3
    /\ BodyRange(1).start.bo = BodyRange(2).start.bo
    /\ BodyRange(1).end.offset <= BodyRange(2).start.offset
    /\ BodyRange(3).start.bo # BodyRange(2).start.bo

----------------------------------------------------------------------------
(* C4 *)

\* the operation hands a clear value to the frame setup
ClearRequested == cmd.kind \in ClearKinds \cup {"fill_buffer"}

\* the packets of a frame setup whose workaround sequence opens with `coords`
FrameSetupSequence(coords, clear) ==
    <<"MULTICORE_RENDERING_TILE_LIST_SET_BASE",
      "MULTICORE_RENDERING_SUPERTILE_CFG",
      coords, "END_OF_LOADS", "STORE_TILE_BUFFER_GENERAL">>
    \o (IF clear THEN <<"CLEAR_TILE_BUFFERS">> ELSE <<>>)
    \o <<"END_OF_TILE_MARKER",
         coords, "END_OF_LOADS", "STORE_TILE_BUFFER_GENERAL",
         "END_OF_TILE_MARKER", "FLUSH_VCD_CACHE">>

\* every frame setup of the open job is FrameSetupSequence(coords, _), its
\* stores store nothing and its base is at 64 x layer x tiles_x x tiles_y
FrameSetupsAre(coords) ==
    LET recs == job.rcl.recs
        bases == IndicesOf(recs, {"MULTICORE_RENDERING_TILE_LIST_SET_BASE"})
        flushes == IndicesOf(recs, {"FLUSH_VCD_CACHE"})
        tl == job.frame_tiling
    IN /\ Cardinality(bases) = Cardinality(flushes)
       /\ Cardinality(bases) =
             (IF pc \in {"per_tile_list", "supertiles"}
              THEN (IF cmd.kind \in Layered THEN layer + 1 ELSE 1)
              ELSE BodiesDue)
       /\ \A k \in 1..Cardinality(bases) :
             LET b == NthOf(bases, k)
                 f == NthOf(flushes, k)
             IN /\ b < f
                /\ SubSeq(KindsOf(recs), b, f)
                      = FrameSetupSequence(coords, ClearRequested)
                /\ \A m \in b..f :
                      recs[m].kind = "STORE_TILE_BUFFER_GENERAL"
                         => recs[m].buffer_to_store = "NONE"
                /\ recs[b].address.offset =
                      64 * (k - 1) * tl.draw_tiles_x * tl.draw_tiles_y

\* C4 (as amended): every frame setup is the tile-list base address (offset
\* 64 x layer x tiles_x x tiles_y), the supertile configuration, then twice
\* the sequence TILE_COORDINATES (the explicit packet), END_OF_LOADS, a store
\* of buffer NONE, CLEAR_TILE_BUFFERS on the first pass only and only when a
\* clear is requested, END_OF_TILE_MARKER; then exactly one FLUSH_VCD_CACHE.
C4_FrameSetup == job.open => FrameSetupsAre("TILE_COORDINATES")

\* C4 as stated: the sequence opens with tile-coordinates-implicit.
C4_Original == job.open => FrameSetupsAre("TILE_COORDINATES_IMPLICIT")

\* the frame setup of a clear has just been emitted
C4_Witness ==
    /\ pc = "per_tile_list"
    /\ cmd.kind \in ClearKinds
    /\ Cardinality(IndicesOf(job.rcl.recs, {"CLEAR_TILE_BUFFERS"})) = 1
    /\ Cardinality(IndicesOf(job.rcl.recs, {"TILE_COORDINATES"})) = 2

----------------------------------------------------------------------------
(* C5 *)

\* the prologue of the open job has been emitted
AfterPrologue == job.open /\ pc # "prologue"

\* a color aspect is being cleared: a color range of an image clear, or the
\* fill of a buffer
ColorCleared ==
    \/ cmd.kind \in ClearKinds /\ "COLOR" \in cmd.regions[iter.i + 1].aspectMask
    \/ cmd.kind = "fill_buffer"

ClearColorKinds == {"TILE_RENDERING_MODE_CFG_CLEAR_COLORS_PART1",
                    "TILE_RENDERING_MODE_CFG_CLEAR_COLORS_PART2",
                    "TILE_RENDERING_MODE_CFG_CLEAR_COLORS_PART3"}

\* the packets of the render control list up to TILE_LIST_INITIAL_BLOCK_SIZE
PrologueRecs ==
    SubSeq(job.rcl.recs, 1,
           NthOf(IndicesOf(job.rcl.recs, {"TILE_LIST_INITIAL_BLOCK_SIZE"}), 1))

\* C5: the prologue is, in order, TILE_RENDERING_MODE_CFG_COMMON (early Z
\* disabled, the frame's width and height, one render target, the frame's
\* max bpp), the clear-color packets if and only if a color aspect is being
\* cleared, TILE_RENDERING_MODE_CFG_COLOR, the Z/S clear values (always;
\* 1.0 and 0 in the copies), and TILE_LIST_INITIAL_BLOCK_SIZE with
\* auto-chained tile lists.
C5_PrologueOrder ==
    AfterPrologue =>
      /\ IndicesOf(job.rcl.recs, {"TILE_LIST_INITIAL_BLOCK_SIZE"}) # {}
      /\ LET p == PrologueRecs
             n == Len(p)
             tl == job.frame_tiling
         IN /\ n >= 4
            /\ Cardinality(IndicesOf(job.rcl.recs, PrologueKinds)) = n
            /\ p[1].kind = "TILE_RENDERING_MODE_CFG_COMMON"
            /\ p[1].early_z_disable
            /\ p[1].image_width_pixels = tl.width
            /\ p[1].image_height_pixels = tl.height
            /\ p[1].number_of_render_targets = 1
            /\ p[1].maximum_bpp_of_all_render_targets = tl.internal_bpp
            /\ \A m \in 2..(n - 3) : p[m].kind \in ClearColorKinds
            /\ (n > 4) <=> ColorCleared
            /\ p[n - 2].kind = "TILE_RENDERING_MODE_CFG_COLOR"
            /\ p[n - 2].render_target_0_internal_bpp = tl.internal_bpp
            /\ p[n - 2].render_target_0_internal_type = fb.internal_type
            /\ p[n - 2].render_target_0_clamp = "NONE"
            /\ p[n - 1].kind = "TILE_RENDERING_MODE_CFG_ZS_CLEAR_VALUES"
            /\ ~ClearRequested =>
                  /\ p[n - 1].z_clear_value = "1.0"
                  /\ p[n - 1].stencil_clear_value = 0
            /\ p[n].kind = "TILE_LIST_INITIAL_BLOCK_SIZE"
            /\ p[n].use_auto_chained_tile_lists

\* the prologue of a color clear with all three clear-color packets
C5_Witness ==
    /\ pc = "frame_setup"
    /\ cmd.kind = "clear_color_image"
    /\ Len(job.rcl.recs) = 7
    /\ job.rcl.recs[4].kind = "TILE_RENDERING_MODE_CFG_CLEAR_COLORS_PART3"

----------------------------------------------------------------------------
(* C6, C7, C8 *)

\* ceiling of a / b, for a >= 0 and b >= 1
CeilDiv(a, b) == IF a % b = 0 THEN a \div b ELSE (a \div b) + 1

\* the slice an image clear is clearing, the frame's height rounded up to
\* whole UIF blocks, and what the slice's padded height adds to it
ClearedSlice == cmd.image.slices[iter.level]
ImplicitPaddedHeight ==
    CeilDiv(job.frame_tiling.height, 2 * v3d_utile_height(cmd.image.cpp))
PaddingDifference ==
    ClearedSlice.padded_height_of_output_image_in_uif_blocks - ImplicitPaddedHeight
PaddingCorrectionNeeded ==
    /\ cmd.kind \in ClearKinds
    /\ ClearedSlice.tiling \in UifTilings
    /\ PaddingDifference >= 15

\* the clear-color packets of one kind in the render control list
ClearColorPackets(kind) ==
    { job.rcl.recs[k] : k \in IndicesOf(job.rcl.recs, {kind}) }
Part3 == ClearColorPackets("TILE_RENDERING_MODE_CFG_CLEAR_COLORS_PART3")

\* C6: when a color aspect is cleared the first clear-color packet is always
\* emitted, the second if and only if the internal bpp is at least the 64-bit
\* class, the third if and only if it is at least the 128-bit class or a UIF
\* padding correction is needed; when no color aspect is cleared there is no
\* clear-color packet.
C6_ClearColorRecords ==
    AfterPrologue =>
      LET n1 == Cardinality(IndicesOf(job.rcl.recs,
                   {"TILE_RENDERING_MODE_CFG_CLEAR_COLORS_PART1"}))
          n2 == Cardinality(IndicesOf(job.rcl.recs,
                   {"TILE_RENDERING_MODE_CFG_CLEAR_COLORS_PART2"}))
          n3 == Cardinality(IndicesOf(job.rcl.recs,
                   {"TILE_RENDERING_MODE_CFG_CLEAR_COLORS_PART3"}))
          bpp == job.frame_tiling.internal_bpp
      IN IF ColorCleared
         THEN /\ n1 = 1
              /\ n2 = (IF bpp >= V3D_INTERNAL_BPP_64 THEN 1 ELSE 0)
              /\ n3 = (IF bpp >= V3D_INTERNAL_BPP_128 \/ PaddingCorrectionNeeded
                       THEN 1 ELSE 0)
         ELSE n1 = 0 /\ n2 = 0 /\ n3 = 0

\* a 32-bit color clear at the threshold: third packet without the second
C6_Witness ==
    /\ AfterPrologue
    /\ cmd.kind = "clear_color_image"
    /\ job.frame_tiling.internal_bpp = V3D_INTERNAL_BPP_32
    /\ PaddingDifference = 15
    /\ Part3 # {}
    /\ ClearColorPackets("TILE_RENDERING_MODE_CFG_CLEAR_COLORS_PART2") = {}

\* the padding field of the third clear-color packet of a color clear is
\* `carried` when the correction is needed and 0 when it is not
PaddingFieldIs(carried) ==
    (AfterPrologue /\ cmd.kind \in ClearKinds /\ ColorCleared) =>
       IF PaddingCorrectionNeeded
       THEN /\ Part3 # {}
            /\ \A r \in Part3 : r.uif_padded_height_in_uif_blocks = carried
       ELSE \A r \in Part3 : r.uif_padded_height_in_uif_blocks = 0

\* C7 (as amended): when the slice of a cleared color image is UIF and its
\* padded height in UIF blocks exceeds the frame's implicit padded height by
\* at least 15 blocks, the padding field of the third clear-color packet
\* carries the slice's padded height in UIF blocks (not the difference);
\* below 15 the field is 0.
C7_PaddingField ==
    PaddingFieldIs(ClearedSlice.padded_height_of_output_image_in_uif_blocks)

\* C7 as stated: the padding field carries the difference.
C7_Original == PaddingFieldIs(PaddingDifference)

\* a 128-bit color clear of a UIF slice padded by 15 blocks or more
C7_Witness ==
    /\ AfterPrologue
    /\ cmd.kind = "clear_color_image"
    /\ job.frame_tiling.internal_bpp = V3D_INTERNAL_BPP_128
    /\ PaddingCorrectionNeeded
    /\ \E r \in Part3 : r.uif_padded_height_in_uif_blocks > PaddingDifference

\* the clear of a UIF slice padded by exactly 20 blocks
Scenario20 ==
    /\ AfterPrologue
    /\ cmd.kind \in ClearKinds
    /\ ClearedSlice.tiling \in UifTilings
    /\ PaddingDifference = 20

\* C8 (as amended): clearing a combined D24S8 image with UIF tiling whose
\* slice is padded 20 blocks past the implicit height emits no clear-color
\* packet at all (its aspects are depth and stencil, cleared through the Z/S
\* clear values); it is the clear of a 32-bit color image with such a slice
\* that emits the third clear-color packet, carrying the slice's padded
\* height, implicit height + 20.
C8_Scenario ==
    /\ (Scenario20 /\ cmd.image.vk_format = "D24_UNORM_S8_UINT") =>
          /\ IndicesOf(job.rcl.recs, ClearColorKinds) = {}
          /\ \E k \in 1..Len(job.rcl.recs) :
                /\ job.rcl.recs[k].kind = "TILE_RENDERING_MODE_CFG_ZS_CLEAR_VALUES"
                /\ job.rcl.recs[k].z_clear_value = cmd.clear_value.z
                /\ job.rcl.recs[k].stencil_clear_value = cmd.clear_value.s
    /\ (Scenario20 /\ ColorCleared
          /\ job.frame_tiling.internal_bpp = V3D_INTERNAL_BPP_32) =>
          /\ Part3 # {}
          /\ \A r \in Part3 :
                r.uif_padded_height_in_uif_blocks = ImplicitPaddedHeight + 20

\* C8 as stated: the D24S8 clear emits the third clear-color packet with
\* padding 20.
C8_Original ==
    (Scenario20 /\ cmd.image.vk_format = "D24_UNORM_S8_UINT") =>
       /\ Part3 # {}
       /\ \A r \in Part3 : r.uif_padded_height_in_uif_blocks = 20

\* the complete render control list of the D24S8 clear of the scenario
C8_Witness ==
    /\ Scenario20
    /\ pc = "finish"
    /\ cmd.kind = "clear_depth_stencil_image"
    /\ cmd.image.vk_format = "D24_UNORM_S8_UINT"
    /\ cmd.regions[iter.i + 1].aspectMask = {"DEPTH", "STENCIL"}

----------------------------------------------------------------------------
(* C9: emit_supertile_coordinates on every rectangle of supertiles.        *)

\* the largest supertile coordinate of the rectangles tried
MaxSupertile == 3

\* the render control list as a per-tile-list emitter leaves it, and a
\* framebuffer whose coverage is any rectangle min <= max
InitSupertile ==
    /\ pc = "supertiles"
    /\ cmd = [NoCmd EXCEPT !.kind = "fill_buffer"]
    /\ job = TileListClose(NewJob, EmptyCl, v3dv_cl_get_address(EmptyCl))
    /\ \E min_x, max_x, min_y, max_y \in 0..MaxSupertile :
          /\ min_x <= max_x
          /\ min_y <= max_y
          /\ fb = [NoFb EXCEPT !.min_x_supertile = min_x,
                               !.max_x_supertile = max_x,
                               !.min_y_supertile = min_y,
                               !.max_y_supertile = max_y]
    /\ layer = 0
    /\ iter = IterInit
    /\ finished = <<>>
    /\ OthersIdle

SpecSupertile == InitSupertile /\ [][SupertileCoordinates]_vars

\* the SUPERTILE_COORDINATES packets that end the render control list
TrailingCoordinates ==
    LET recs == job.rcl.recs
        others == { k \in 1..Len(recs) : recs[k].kind # "SUPERTILE_COORDINATES" }
        from == IF others = {} THEN 1
                ELSE 1 + CHOOSE k \in others : \A m \in others : m <= k
    IN SubSeq(recs, from, Len(recs))

\* C9: for the rectangle (min_x, min_y, max_x, max_y) the emitter appends
\* exactly (max_x - min_x + 1) x (max_y - min_y + 1) SUPERTILE_COORDINATES,
\* row by row (y outer, x inner), the first being (min_x, min_y) and every
\* (x, y) of the rectangle appearing exactly once.
C9_SupertileCoordinates ==
    pc = "end_of_rendering" =>
      LET t == TrailingCoordinates
          w == fb.max_x_supertile - fb.min_x_supertile + 1
          h == fb.max_y_supertile - fb.min_y_supertile + 1
      IN /\ Len(t) = w * h
         /\ t[1].column_number_in_supertiles = fb.min_x_supertile
         /\ t[1].row_number_in_supertiles = fb.min_y_supertile
         /\ \A k \in 0..(w * h - 1) :
               /\ t[k + 1].column_number_in_supertiles = fb.min_x_supertile + (k % w)
               /\ t[k + 1].row_number_in_supertiles = fb.min_y_supertile + (k \div w)
         /\ \A x \in fb.min_x_supertile..fb.max_x_supertile :
               \A y \in fb.min_y_supertile..fb.max_y_supertile :
                  Cardinality({ k \in 1..Len(t) :
                                   /\ t[k].column_number_in_supertiles = x
                                   /\ t[k].row_number_in_supertiles = y }) = 1

\* a rectangle away from the origin, wider than tall
C9_Witness ==
    /\ pc = "end_of_rendering"
    /\ fb.min_x_supertile = 1
    /\ fb.max_x_supertile = 3
    /\ fb.min_y_supertile = 2
    /\ fb.max_y_supertile = 3
    /\ Len(TrailingCoordinates) = 6

----------------------------------------------------------------------------
(* C10 *)

\* C10: for a frame of width, height >= 1 the framebuffer's supertile
\* coverage starts at (0, 0) and its max bounds are
\* ceil(width / (tile_width x supertile_width)) - 1 and
\* ceil(height / (tile_height x supertile_height)) - 1.
C10_SupertileCoverage ==
    job.open =>
      LET tl == job.frame_tiling IN
      (tl.width >= 1 /\ tl.height >= 1) =>
         /\ fb.min_x_supertile = 0
         /\ fb.min_y_supertile = 0
         /\ fb.max_x_supertile =
               CeilDiv(tl.width, tl.tile_width * tl.supertile_width) - 1
         /\ fb.max_y_supertile =
               CeilDiv(tl.height, tl.tile_height * tl.supertile_height) - 1

\* a frame that is a whole number of supertiles of more than one tile
C10_Witness ==
    /\ job.open
    /\ job.frame_tiling.supertile_width > 1
    /\ job.frame_tiling.width
          % (job.frame_tiling.tile_width * job.frame_tiling.supertile_width) = 0
    /\ fb.max_x_supertile > 0
    /\ fb.max_y_supertile > 0

----------------------------------------------------------------------------
(* Buffer fills of many sizes, for the frame size computation.             *)

\* every item count up to MaxPixels is tried, and the counts below
MaxPixels == 256
LargePixelCounts ==
    {520, 1025, 4095, 4096, 4097, 4098, 8190, 8192, 8193, 8194, 12290, 16386,
     65536, 1000000, 1000001, 16777214, 16777215, 16777216,
     16777217, 16777218, 16778241, 33554432, 33554433, 50331648}
PixelCounts == (1..MaxPixels) \cup LargePixelCounts

\* the state v3dv_CmdFillBuffer leaves for a fill of n items at offset 0
InitFill ==
    /\ pc = "copy_loop"
    /\ \E n \in PixelCounts :
          /\ cmd = [kind |-> "fill_buffer", offset |-> 0, size |-> 4 * n,
                    data |-> 43981,
                    size_argument |-> 4 * n, buffer_size |-> 4 * n]
          /\ iter = [IterInit EXCEPT !.item_size = 4, !.num_items = n,
                                     !.dst_offset = 0,
                                     !.vk_format = "R8G8B8A8_UINT"]
    /\ job = NoJob
    /\ fb = NoFb
    /\ layer = 0
    /\ finished = <<>>
    /\ OthersIdle

NextFill ==
    \/ CopyLoop
    \/ Prologue
    \/ FrameSetup
    \/ FillBufferPerTileList
    \/ SupertileCoordinates
    \/ EndOfRendering
    \/ FinishJob

SpecFill == InitFill /\ [][NextFill]_vars

\* a job of a buffer fill or copy has its frame, and the items it was sized for
SizedJob == job.open /\ cmd.kind \in {"fill_buffer", "copy_buffer"}
FrameW == job.frame_tiling.width
FrameH == job.frame_tiling.height
max_dim_pixels == 4096
max_pixels == max_dim_pixels * max_dim_pixels

\* C11: for every pixel count 0 < N <= 4096 x 4096 the frame (w, h) has
\* w >= 1, h >= 1, w <= 4096, h <= 4096 and w x h <= N.
C11_SizeInRange ==
    (SizedJob /\ iter.num_items > 0 /\ iter.num_items <= max_pixels) =>
       /\ FrameW >= 1
       /\ FrameH >= 1
       /\ FrameW <= max_dim_pixels
       /\ FrameH <= max_dim_pixels
       /\ FrameW * FrameH <= iter.num_items

\* a count whose width had to be capped, losing an item
C11_Witness ==
    /\ SizedJob
    /\ iter.num_items = 8193
    /\ FrameW = 128
    /\ FrameH = 64

\* the loop of the size computation goes on from width w and height h
Halves(w, h) == w > max_dim_pixels \/ (w % 2 = 0 /\ w > 2 * h)

\* C12: for N <= 4096 x 4096 the frame is what halving the width and
\* doubling the height from (N, 1) gives when it stops at the first pair
\* that is neither wider than 4096 nor even and wider than twice its height:
\* h is a power of two, w <= 4096, and w is odd or w <= 2 x h.
C12_SizeByHalving ==
    (SizedJob /\ iter.num_items > 0 /\ iter.num_items <= max_pixels) =>
       \E k \in 0..24 :
          /\ FrameH = 2 ^ k
          /\ FrameW = iter.num_items \div (2 ^ k)
          /\ ~Halves(FrameW, FrameH)
          /\ \A m \in 0..(k - 1) : Halves(iter.num_items \div (2 ^ m), 2 ^ m)
          /\ FrameW <= max_dim_pixels
          /\ (FrameW % 2 = 1 \/ FrameW <= 2 * FrameH)

\* a frame that stopped at an even width, after several halvings
C12_Witness ==
    /\ SizedJob
    /\ iter.num_items <= max_pixels
    /\ FrameW % 2 = 0
    /\ FrameH >= 4
    /\ FrameW = 2 * FrameH

----------------------------------------------------------------------------
(* C13: the jobs of one fill.                                              *)

\* the items of the fill, and the items the first k finished jobs covered
FillItems == cmd.size \div 4
RECURSIVE ItemsDone(_)
ItemsDone(k) ==
    IF k = 0 THEN 0
    ELSE ItemsDone(k - 1) + finished[k].frame_tiling.width
                            * finished[k].frame_tiling.height

\* C13: whenever more than 4096 x 4096 items remain, the job's frame is
\* exactly 4096 x 4096 and the remainder, 4096 x 4096 items fewer, is left
\* to the next iteration of the caller's loop.
C13_AboveMaximum ==
    cmd.kind = "fill_buffer" =>
       /\ (SizedJob /\ iter.num_items > max_pixels) =>
             FrameW = max_dim_pixels /\ FrameH = max_dim_pixels
       /\ \A k \in 1..Len(finished) :
             FillItems - ItemsDone(k - 1) > max_pixels =>
                /\ finished[k].frame_tiling.width = max_dim_pixels
                /\ finished[k].frame_tiling.height = max_dim_pixels
                /\ ItemsDone(k) = ItemsDone(k - 1) + max_pixels
       /\ pc = "copy_loop" => iter.num_items = FillItems - ItemsDone(Len(finished))

\* two full frames done and one item left for a third job
C13_Witness ==
    /\ pc = "copy_loop"
    /\ cmd.kind = "fill_buffer"
    /\ FillItems = 33554433
    /\ Len(finished) = 2
    /\ iter.num_items = 1

----------------------------------------------------------------------------
(* C14: buffer copies of every small size.                                 *)

\* the largest byte size of the copies tried
MaxCopyBytes == 100

\* the state v3dv_CmdCopyBuffer leaves for one region of any size
InitCopy ==
    /\ pc = "region"
    /\ \E size \in 1..MaxCopyBytes :
          cmd = [kind |-> "copy_buffer",
                 regions |-> <<[srcOffset |-> 0, dstOffset |-> 0, size |-> size]>>]
    /\ iter = IterInit
    /\ job = NoJob
    /\ fb = NoFb
    /\ layer = 0
    /\ finished = <<>>
    /\ OthersIdle

SpecCopy == InitCopy /\ [][CopyBufferRegion]_vars

\* C14: the item size of a buffer copy follows the byte length modulo 4
\* (0: 4-byte items, 2: 2-byte items, 1 or 3: 1-byte items); it divides the
\* size exactly, so num_items x item_size = size and num_items > 0.
C14_CopyItemSize ==
    (cmd.kind = "copy_buffer" /\ pc = "copy_loop" /\ finished = <<>>) =>
       LET size == cmd.regions[iter.i + 1].size IN
       /\ iter.item_size = (CASE size % 4 = 0 -> 4
                              [] size % 4 = 2 -> 2
                              [] OTHER -> 1)
       /\ size % iter.item_size = 0
       /\ iter.num_items * iter.item_size = size
       /\ iter.num_items > 0

\* a copy of 2-byte items
C14_Witness ==
    /\ cmd.kind = "copy_buffer"
    /\ pc = "copy_loop"
    /\ cmd.regions[1].size = 6
    /\ iter.item_size = 2
    /\ iter.num_items = 3

----------------------------------------------------------------------------
(* C16 *)

\* the region a copy command is at, while it has one
AtRegion == cmd.kind \in Layered /\ iter.i < Len(cmd.regions)
CopyRegion == cmd.regions[iter.i + 1]

\* the offsets a region gives for the images it names
RegionOffsets ==
    IF cmd.kind = "copy_image"
    THEN {CopyRegion.srcOffset, CopyRegion.dstOffset}
    ELSE {CopyRegion.imageOffset}

\* the format of an image is TLB-renderable or has a compatible TLB format
FormatUsable(f) ==
    \/ rt_type_of(f) # "NO"
    \/ f \in {"R8G8B8A8_SNORM", "R8G8_SNORM", "R8_SNORM", "A8B8G8R8_SNORM_PACK32",
              "R16_UNORM", "R16_SNORM", "R16G16_UNORM", "R16G16_SNORM",
              "R16G16B16A16_UNORM", "R16G16B16A16_SNORM",
              "E5B9G9R9_UFLOAT_PACK32"}

RegionDirect ==
    /\ \A o \in RegionOffsets : o.x = 0 /\ o.y = 0
    /\ FormatUsable(cmd.image.vk_format)

\* C16: for each region of an image-to-buffer, buffer-to-image or
\* image-to-image copy a job is started only if the region's image offsets
\* are (0,0) and the image format is TLB-renderable or has a compatible TLB
\* format; a nonzero offset or an incompatible format ends in the 'not
\* implemented' failure, with no job started for the region.
C16_DirectPath ==
    AtRegion =>
       /\ job.open => RegionDirect
       /\ pc = "not_implemented" => (~RegionDirect /\ ~job.open
                                     /\ Len(finished) <= iter.i)
       /\ ~RegionDirect => (pc \in {"region", "not_implemented"} /\ ~job.open)

\* the failure of a region at offset (0,0) whose format has no TLB format
C16_Witness ==
    /\ AtRegion
    /\ pc = "not_implemented"
    /\ cmd.kind = "copy_buffer_to_image"
    /\ cmd.image.vk_format = "ETC2_R8G8B8A8_UNORM_BLOCK"
    /\ \A o \in RegionOffsets : o.x = 0 /\ o.y = 0

----------------------------------------------------------------------------
(* C17 *)

NumBodies == Cardinality(IndicesOf(job.indirect.recs, {"RETURN_FROM_SUB_LIST"}))

\* the packets of the k-th body of the indirect list
BodyRecs(k) == SubSeq(job.indirect.recs, BodyFirst(k), BodyLast(k))

\* the region of the open buffer-to-image job and the place in the image the
\* k-th body of the job writes
UploadRegion == cmd.regions[iter.i + 1]
UploadPlace(k) ==
    [bo |-> "image",
     offset |-> [level |-> UploadRegion.imageSubresource.mipLevel,
                 layer |-> UploadRegion.imageSubresource.baseArrayLayer + k - 1]]

\* C17: a buffer upload into one aspect of a D24_UNORM_S8_UINT image has in
\* every body, after the load of the buffer, a load of the other aspect from
\* the image before END_OF_LOADS, then the store of the uploaded aspect, then
\* the store of the other aspect, all three at the same layer and mip level
\* of the image; for every other format the body has the one load of the
\* buffer and the one store to the image.
C17_PreserveOtherAspect ==
    (job.open /\ cmd.kind = "copy_buffer_to_image") =>
      \A k \in 1..NumBodies :
        LET b == BodyRecs(k)
            up == UploadRegion.imageSubresource.aspectMask
            other == OtherAspect(up)
        IN IF cmd.image.vk_format = "D24_UNORM_S8_UINT"
           THEN /\ KindsOf(b) = <<"TILE_COORDINATES_IMPLICIT",
                                  "LOAD_TILE_BUFFER_GENERAL",
                                  "LOAD_TILE_BUFFER_GENERAL", "END_OF_LOADS",
                                  "BRANCH_TO_IMPLICIT_TILE_LIST",
                                  "STORE_TILE_BUFFER_GENERAL",
                                  "STORE_TILE_BUFFER_GENERAL",
                                  "END_OF_TILE_MARKER", "RETURN_FROM_SUB_LIST">>
                /\ b[2].address.bo = "buffer"
                /\ b[2].buffer_to_load = "RENDER_TARGET_0"
                /\ b[3].address = UploadPlace(k)
                /\ b[3].buffer_to_load = v3dv_zs_buffer_from_aspect_bits(other)
                /\ b[6].address = UploadPlace(k)
                /\ b[6].buffer_to_store = "RENDER_TARGET_0"
                /\ b[7].address = UploadPlace(k)
                /\ b[7].buffer_to_store = v3dv_zs_buffer_from_aspect_bits(other)
           ELSE /\ KindsOf(b) = <<"TILE_COORDINATES_IMPLICIT",
                                  "LOAD_TILE_BUFFER_GENERAL", "END_OF_LOADS",
                                  "BRANCH_TO_IMPLICIT_TILE_LIST",
                                  "STORE_TILE_BUFFER_GENERAL",
                                  "END_OF_TILE_MARKER", "RETURN_FROM_SUB_LIST">>
                /\ b[2].address.bo = "buffer"
                /\ b[5].address = UploadPlace(k)
                /\ b[5].buffer_to_store = "RENDER_TARGET_0"

\* a finished upload of stencil into two layers of a D24S8 image, the depth
\* of each layer loaded and stored back
C17_Witness ==
    /\ pc = "finish"
    /\ cmd.kind = "copy_buffer_to_image"
    /\ cmd.image.vk_format = "D24_UNORM_S8_UINT"
    /\ UploadRegion.imageSubresource.aspectMask = {"STENCIL"}
    /\ NumBodies = 2
    /\ BodyRecs(2)[3].buffer_to_load = "Z"
    /\ BodyRecs(2)[7].buffer_to_store = "Z"

----------------------------------------------------------------------------
(* The resolver of the internal type and bpp, on every format and aspect.   *)

ResolveFormats == ColorFormats \cup DepthFormats
                     \cup {"D32_SFLOAT_S8_UINT", "S8_UINT"}
ResolveAspects == {{"COLOR"}, {"DEPTH"}, {"STENCIL"}, {"DEPTH", "STENCIL"}}

\* A caller is about to resolve the internal type and bpp of a format for an
\* aspect mask.
InitResolve ==
    /\ pc = "resolve"
    /\ \E f \in ResolveFormats, a \in ResolveAspects :
          cmd = [kind |-> "resolve", vk_format |-> f, aspect_mask |-> a]
    /\ iter = IterInit
    /\ job = NoJob
    /\ fb = NoFb
    /\ layer = 0
    /\ finished = <<>>
    /\ OthersIdle

\* get_internal_type_bpp_for_image_aspects runs; the caller keeps the type
\* for its framebuffer and the bpp for its frame tiling
ResolveInternalType ==
    /\ pc = "resolve"
    /\ LET r == get_internal_type_bpp_for_image_aspects(cmd.vk_format,
                                                        cmd.aspect_mask)
       IN IF r.ok
          THEN /\ pc' = "resolved"
               /\ fb' = [fb EXCEPT !.internal_type = r.type]
               /\ job' = [job EXCEPT !.frame_tiling.internal_bpp = r.bpp]
          ELSE /\ pc' = "unsupported_format"
               /\ UNCHANGED <<fb, job>>
    /\ UNCHANGED <<cmd, layer, iter, finished>>
    /\ UNCHANGED other_vars

SpecResolve == InitResolve /\ [][ResolveInternalType]_vars

----------------------------------------------------------------------------
(* C18 *)

Resolved(type, bpp) ==
    /\ pc = "resolved"
    /\ fb.internal_type = type
    /\ job.frame_tiling.internal_bpp = bpp

\* C18: with a depth or stencil aspect the resolver gives D16_UNORM the type
\* 16UI and the 64 bpp class, D32_SFLOAT the type 32F and the 128 bpp class,
\* X8_D24_UNORM_PACK32 and D24_UNORM_S8_UINT the type 8UI and the 32 bpp
\* class, and stops at its assertion for every other format; with the color
\* aspect it gives what the render-target type of the format gives.
C18_InternalTypeBpp ==
    (cmd.kind = "resolve" /\ pc # "resolve") =>
       IF cmd.aspect_mask \cap {"DEPTH", "STENCIL"} # {}
       THEN CASE cmd.vk_format = "D16_UNORM" -> Resolved("16UI", 1)
              [] cmd.vk_format = "D32_SFLOAT" -> Resolved("32F", 2)
              [] cmd.vk_format \in {"X8_D24_UNORM_PACK32", "D24_UNORM_S8_UINT"} ->
                    Resolved("8UI", 0)
              [] OTHER -> pc = "unsupported_format"
       ELSE LET rt == v3dv_get_internal_type_bpp_for_output_format(
                         rt_type_of(cmd.vk_format))
            IN Resolved(rt.type, rt.bpp)

\* the depth of a D32_SFLOAT image resolved to 32F in the 128 bpp class
C18_Witness ==
    /\ cmd.kind = "resolve"
    /\ cmd.vk_format = "D32_SFLOAT"
    /\ cmd.aspect_mask = {"DEPTH"}
    /\ Resolved("32F", V3D_INTERNAL_BPP_128)

----------------------------------------------------------------------------
(* C19 *)

\* the open job copies aspect `a` of a D24_UNORM_S8_UINT image to a buffer
DownloadD24S8(a) ==
    /\ job.open
    /\ cmd.kind = "copy_image_to_buffer"
    /\ cmd.image.vk_format = "D24_UNORM_S8_UINT"
    /\ cmd.regions[iter.i + 1].imageSubresource.aspectMask = a

\* the load and the store of the k-th body of a copy to a buffer
DownloadLoad(k) == BodyRecs(k)[2]
DownloadStore(k) == BodyRecs(k)[5]

DownloadBody(k) ==
    /\ KindsOf(BodyRecs(k)) = <<"TILE_COORDINATES_IMPLICIT",
                                "LOAD_TILE_BUFFER_GENERAL", "END_OF_LOADS",
                                "BRANCH_TO_IMPLICIT_TILE_LIST",
                                "STORE_TILE_BUFFER_GENERAL",
                                "END_OF_TILE_MARKER", "RETURN_FROM_SUB_LIST">>
    /\ DownloadLoad(k).address.bo = "image"
    /\ DownloadStore(k).address.bo = "buffer"

\* C19: a copy of the stencil aspect of a D24_UNORM_S8_UINT image to a buffer
\* stores with the packed R8UI format; a copy of the depth aspect stores with
\* RGBA8UI.  The channel-reverse and red-blue-swap flags of the store are
\* clear in both; for the depth aspect they are both set on the load of the
\* image that precedes the store, for the stencil aspect they are clear
\* there too.
C19_DownloadFormats ==
    /\ DownloadD24S8({"STENCIL"}) =>
          \A k \in 1..NumBodies :
             /\ DownloadBody(k)
             /\ DownloadStore(k).output_image_format = "R8UI"
             /\ ~DownloadStore(k).r_b_swap /\ ~DownloadStore(k).channel_reverse
             /\ DownloadLoad(k).input_image_format = "RGBA8UI"
             /\ ~DownloadLoad(k).r_b_swap /\ ~DownloadLoad(k).channel_reverse
    /\ DownloadD24S8({"DEPTH"}) =>
          \A k \in 1..NumBodies :
             /\ DownloadBody(k)
             /\ DownloadStore(k).output_image_format = "RGBA8UI"
             /\ ~DownloadStore(k).r_b_swap /\ ~DownloadStore(k).channel_reverse
             /\ DownloadLoad(k).input_image_format = "RGBA8UI"
             /\ DownloadLoad(k).r_b_swap /\ DownloadLoad(k).channel_reverse

\* the statement with the two flags on the store of the depth copy
C19_Original ==
    /\ DownloadD24S8({"STENCIL"}) =>
          \A k \in 1..NumBodies :
             DownloadStore(k).output_image_format = "R8UI"
    /\ DownloadD24S8({"DEPTH"}) =>
          \A k \in 1..NumBodies :
             /\ DownloadStore(k).output_image_format = "RGBA8UI"
             /\ DownloadStore(k).r_b_swap /\ DownloadStore(k).channel_reverse

\* a finished copy of the depth of a D24S8 layer to a buffer
C19_Witness ==
    /\ DownloadD24S8({"DEPTH"})
    /\ pc = "finish"
    /\ NumBodies >= 1
    /\ DownloadStore(1).output_image_format = "RGBA8UI"
    /\ DownloadLoad(1).channel_reverse

----------------------------------------------------------------------------
(* C20 *)

\* What the two flags do to the channels of a pixel, after the comment in
\* emit_image_load: a load reverses the channel order and then swaps the
\* red and blue channels, a store does the two in the opposite order.
ChannelReverse(on, px) == IF on THEN <<px[4], px[3], px[2], px[1]>> ELSE px
RBSwap(on, px) == IF on THEN <<px[3], px[2], px[1], px[4]>> ELSE px
LoadFixup(flags, px) == RBSwap(flags.r_b_swap, ChannelReverse(flags.channel_reverse, px))
StoreFixup(flags, px) == ChannelReverse(flags.channel_reverse, RBSwap(flags.r_b_swap, px))

FlagsOf(rec) == [r_b_swap |-> rec.r_b_swap, channel_reverse |-> rec.channel_reverse]

\* the formats and aspects whose raw copies need the fixup
NeedsD24Fixup(f, a) ==
    \/ f = "X8_D24_UNORM_PACK32"
    \/ f = "D24_UNORM_S8_UINT" /\ "DEPTH" \in a
RawCopyFlags(f, a) ==
    [r_b_swap |-> NeedsD24Fixup(f, a), channel_reverse |-> NeedsD24Fixup(f, a)]

\* the store of the uploaded aspect in the k-th body of a copy from a buffer
UploadStore(k) ==
    BodyRecs(k)[IF cmd.image.vk_format = "D24_UNORM_S8_UINT" THEN 6 ELSE 5]

Pixel == <<"R", "G", "B", "A">>

\* C20: for every format and aspect the load of the image in a copy to a
\* buffer and the store to the image in a copy from a buffer carry the same
\* channel-reverse and red-blue-swap flags: both set for X8_D24_UNORM_PACK32
\* and for the depth aspect of D24_UNORM_S8_UINT, both clear otherwise; the
\* fixup of the load followed by the fixup of the store leaves the channel
\* order as it was.
C20_FixupSymmetry ==
    /\ (job.open /\ cmd.kind = "copy_image_to_buffer") =>
          LET a == cmd.regions[iter.i + 1].imageSubresource.aspectMask
              matching == RawCopyFlags(cmd.image.vk_format, a)
          IN \A k \in 1..NumBodies :
                /\ FlagsOf(DownloadLoad(k)) = matching
                /\ StoreFixup(matching, LoadFixup(FlagsOf(DownloadLoad(k)), Pixel))
                      = Pixel
    /\ (job.open /\ cmd.kind = "copy_buffer_to_image") =>
          LET a == cmd.regions[iter.i + 1].imageSubresource.aspectMask
              matching == RawCopyFlags(cmd.image.vk_format, a)
          IN \A k \in 1..NumBodies :
                /\ UploadStore(k).address.bo = "image"
                /\ UploadStore(k).buffer_to_store = "RENDER_TARGET_0"
                /\ FlagsOf(UploadStore(k)) = matching
                /\ StoreFixup(FlagsOf(UploadStore(k)), LoadFixup(matching, Pixel))
                      = Pixel

\* a finished upload of the depth of a D24S8 layer, stored with both flags
C20_Witness ==
    /\ job.open
    /\ pc = "finish"
    /\ cmd.kind = "copy_buffer_to_image"
    /\ cmd.image.vk_format = "D24_UNORM_S8_UINT"
    /\ cmd.regions[iter.i + 1].imageSubresource.aspectMask = {"DEPTH"}
    /\ NumBodies >= 1
    /\ UploadStore(1).r_b_swap
    /\ UploadStore(1).channel_reverse
    /\ LoadFixup(FlagsOf(UploadStore(1)), Pixel) # Pixel

----------------------------------------------------------------------------
(* C21 *)

\* the loads and stores of the open job that address an image, and the image
\* and slice each of them addresses
ImageBos ==
    IF cmd.kind = "copy_image" THEN {"src", "dst"}
    ELSE IF cmd.kind \in {"copy_image_to_buffer", "copy_buffer_to_image"} \cup ClearKinds
    THEN {"image"}
    ELSE {}
ImageAccesses ==
    { k \in IndicesOf(job.indirect.recs, {"LOAD_TILE_BUFFER_GENERAL",
                                          "STORE_TILE_BUFFER_GENERAL"}) :
        job.indirect.recs[k].address.bo \in ImageBos }
AccessedImage(rec) == IF rec.address.bo = "src" THEN cmd.src ELSE cmd.image
AccessedSlice(rec) == AccessedImage(rec).slices[rec.address.offset.level]

\* C21: every load from an image and every store to an image has for its
\* height-or-stride field the padded height in UIF blocks of the slice when
\* the slice is UIF (with or without XOR), the stride in bytes of the slice
\* when it is raster, and the record's default, 0, for any other tiling; the
\* rule is the same for loads and stores.
C21_HeightOrStride ==
    job.open =>
      \A k \in ImageAccesses :
         LET rec == job.indirect.recs[k]
             slice == AccessedSlice(rec)
         IN /\ rec.memory_format = slice.tiling
            /\ rec.height_in_ub_or_stride =
                  CASE slice.tiling \in {"UIF_NO_XOR", "UIF_XOR"} ->
                          slice.padded_height_of_output_image_in_uif_blocks
                    [] slice.tiling = "RASTER" -> slice.stride
                    [] OTHER -> 0

\* an image-to-image copy of a UIF XOR image: its load and its store both
\* carry the padded height of the slice
C21_Witness ==
    /\ job.open
    /\ pc = "finish"
    /\ cmd.kind = "copy_image"
    /\ cmd.image.slices[0].tiling = "UIF_XOR"
    /\ \E k1, k2 \in ImageAccesses :
          /\ job.indirect.recs[k1].kind = "LOAD_TILE_BUFFER_GENERAL"
          /\ job.indirect.recs[k2].kind = "STORE_TILE_BUFFER_GENERAL"
          /\ job.indirect.recs[k1].height_in_ub_or_stride > 20
          /\ job.indirect.recs[k2].height_in_ub_or_stride
                = job.indirect.recs[k1].height_in_ub_or_stride

----------------------------------------------------------------------------
(* C22 *)

\* C22: every load from an image and every store to an image has the
\* decimate mode ALL_SAMPLES exactly when the image has more than one sample
\* per pixel, and SAMPLE_0 otherwise.
C22_DecimateMode ==
    job.open =>
      \A k \in ImageAccesses :
         LET rec == job.indirect.recs[k]
         IN /\ rec.decimate_mode \in {"ALL_SAMPLES", "SAMPLE_0"}
            /\ rec.decimate_mode = "ALL_SAMPLES" <=> AccessedImage(rec).samples > 1

\* a finished copy between the layers of a four-sample image
C22_Witness ==
    /\ job.open
    /\ pc = "finish"
    /\ cmd.kind = "copy_image"
    /\ cmd.image.samples = 4
    /\ \E k1, k2 \in ImageAccesses :
          /\ job.indirect.recs[k1].kind = "LOAD_TILE_BUFFER_GENERAL"
          /\ job.indirect.recs[k2].kind = "STORE_TILE_BUFFER_GENERAL"
          /\ job.indirect.recs[k1].decimate_mode = "ALL_SAMPLES"
          /\ job.indirect.recs[k2].decimate_mode = "ALL_SAMPLES"

----------------------------------------------------------------------------
(* C23 *)

\* the positions of a command between start_job and finish_job
JobPhases == {"prologue", "layer_loop", "frame_setup", "per_tile_list",
              "supertiles", "end_of_rendering", "finish"}

\* the command has returned
Returned == pc \in {"done", "not_implemented"}

\* a job that went through start_frame and the binning flush
FrameStarted(j) ==
    /\ j.open
    /\ j.frame_tiling.width > 0 /\ j.frame_tiling.height > 0
    /\ KindsOf(j.bcl.recs) = <<"FLUSH">>

\* a job whose render control list has been emitted to its end
RclEmitted(j) ==
    /\ FrameStarted(j)
    /\ Len(j.rcl.recs) > 0
    /\ j.rcl.recs[Len(j.rcl.recs)].kind = "END_OF_RENDERING"
    /\ Len(j.indirect.recs) > 0

\* start_job is called in this step
StartsJob == job'.open /\ pc \notin JobPhases

\* finish_job is called in this step
FinishesJob == Len(finished') = Len(finished) + 1

JobStepsInOrder ==
    /\ StartsJob => (~job.open /\ FrameStarted(job') /\ job'.rcl = EmptyCl
                     /\ job'.indirect = EmptyCl /\ finished' = finished)
    /\ FinishesJob => (pc = "finish" /\ RclEmitted(job) /\ ~job'.open
                       /\ SubSeq(finished', 1, Len(finished)) = finished)
    /\ (job.open /\ ~job'.open) => FinishesJob
    /\ Len(finished') >= Len(finished)
    /\ Len(finished') <= Len(finished) + 1

\* C23: jobs are strictly sequential in every copy, clear, fill and update:
\* a job is started only when none is open, goes through start_frame, the
\* binning flush and the emission of its render control list, and is closed
\* by finish_job, and by nothing else, before the next job starts and before
\* the command returns; so at most one job is open at a time and none is
\* open at the return.
C23_SequentialJobs ==
    /\ [](job.open <=> pc \in JobPhases)
    /\ [](Returned => ~job.open)
    /\ [][JobStepsInOrder]_vars

\* between the two jobs of a buffer update: the first is finished, none is
\* open, items remain
C23_Witness ==
    /\ cmd.kind = "update_buffer"
    /\ pc = "copy_loop"
    /\ Len(finished) = 1
    /\ ~job.open
    /\ iter.num_items > 0

----------------------------------------------------------------------------
(* C24 *)

\* the command stands where it calls start_job next: at a region that takes
\* the TLB path, at a layer of a clear, at a chunk of a buffer copy or fill
JobDue ==
    \/ /\ pc = "region"
       /\ AtRegion
       /\ RegionDirect
    \/ /\ pc = "clear_loop"
       /\ iter.level < iter.max_level
       /\ iter.l < (IF cmd.image.type = "3D"
                    THEN u_minify(cmd.image.extent.depth, iter.level)
                    ELSE iter.max_layer)
    \/ /\ pc = "copy_loop"
       /\ iter.num_items > 0

\* start_job returned no job in this step
AllocationFails == JobDue /\ pc' # "prologue"

\* C24: when start_job returns no job for a region, a layer or a chunk, the
\* command gives that unit up in the same step: no frame is started, no
\* record is emitted, finish_job is not called, no job is left open, and the
\* jobs finished for earlier regions, layers or chunks stay as they are.
C24_AllocationFailure ==
    [][AllocationFails =>
          /\ job' = job
          /\ ~job'.open
          /\ fb' = fb
          /\ finished' = finished
          /\ pc' \in {"region", "done"}]_vars

\* a fill given up at its second chunk: the job of the first chunk stands,
\* items remain, no job is open
C24_Witness ==
    /\ cmd.kind = "fill_buffer"
    /\ pc = "done"
    /\ Len(finished) = 1
    /\ iter.num_items > 0
    /\ ~job.open
    /\ job.rcl = EmptyCl

----------------------------------------------------------------------------
(* C25 *)

\* the finished jobs that hold the staging BO of the update among their
\* extra BOs, to release it when they complete
StagingOwners == { k \in 1..Len(finished) : cmd.src_bo \in finished[k].extra_bos }

\* C25: when a buffer update that allocated its staging BO has returned, by
\* any path (success, failure to map the BO, failure to allocate the first
\* or a later job), the staging BO is among the extra BOs of exactly one
\* job, so it is released once and not leaked.
C25_StagingRegistered ==
    (cmd.kind = "update_buffer" /\ pc = "done" /\ cmd.src_bo # "none") =>
       Cardinality(StagingOwners) = 1

----------------------------------------------------------------------------
(* The blit pipeline cache: get_blit_pipeline called from several threads. *)

\* number of threads that call get_blit_pipeline
MaxCallers == 2
\* number of calls each thread makes
MaxCalls == 2

Threads == 1..MaxCallers
BlitFormats == {"R8G8B8A8_UNORM", "R16G16B16A16_SFLOAT"}

\* the state of the command encoder, which these calls do not touch
encoder_vars == <<pc, cmd, job, fb, layer, iter, finished>>

\* get_blit_pipeline_cache_key: the key is the format in the low 32 bits
get_blit_pipeline_cache_key(dst_format) == dst_format

\* A thread outside get_blit_pipeline; `calls` counts the calls it has made,
\* `pipeline` is what *pipeline holds (0 is NULL), `result` what the last
\* call returned, `locks` and `unlocks` the calls of mtx_lock and mtx_unlock
\* the last call has made, `entry` the hash table entry its search found (0
\* is NULL).
IdleCaller == [pc |-> "idle", calls |-> 0, dst_format |-> "", pipeline |-> 0,
               result |-> "none", locks |-> 0, unlocks |-> 0, entry |-> 0]

InitBlitCache ==
    /\ pc = "idle"
    /\ cmd = NoCmd
    /\ job = NoJob
    /\ fb = NoFb
    /\ layer = 0
    /\ iter = IterInit
    /\ finished = <<>>
    /\ meta = NoMeta
    /\ callers = [t \in Threads |-> IdleCaller]
    /\ bit = NoBit

\* get_blit_pipeline is called
BlitCall(t) ==
    /\ callers[t].pc = "idle"
    /\ callers[t].calls < MaxCalls
    /\ \E f \in BlitFormats :
          callers' = [callers EXCEPT ![t] = [pc |-> "lock_layout",
                                             calls |-> @.calls + 1,
                                             dst_format |-> f,
                                             pipeline |-> 0,
                                             result |-> "none",
                                             locks |-> 0, unlocks |-> 0,
                                             entry |-> 0]]
    /\ UNCHANGED <<meta, bit>>
    /\ UNCHANGED encoder_vars

\* line 2338: mtx_lock
BlitLockLayout(t) ==
    /\ callers[t].pc = "lock_layout"
    /\ meta.mtx = 0
    /\ meta' = [meta EXCEPT !.mtx = t]
    /\ callers' = [callers EXCEPT ![t].pc = "layout", ![t].locks = @ + 1]
    /\ UNCHANGED bit
    /\ UNCHANGED encoder_vars

\* lines 2339-2346: the pipeline layout is created if there is none, which
\* may fail; mtx_unlock; return false on failure
BlitLayout(t) ==
    /\ callers[t].pc = "layout"
    /\ \E ok \in (IF meta.playout THEN {TRUE} ELSE BOOLEAN) :
          /\ meta' = [meta EXCEPT !.mtx = 0, !.playout = ok]
          /\ callers' = [callers EXCEPT
                ![t].pc = IF ok THEN "lock_cache" ELSE "return",
                ![t].unlocks = @ + 1,
                ![t].result = IF ok THEN @ ELSE FALSE]
    /\ UNCHANGED bit
    /\ UNCHANGED encoder_vars

\* line 2349: mtx_lock
BlitLockCache(t) ==
    /\ callers[t].pc = "lock_cache"
    /\ meta.mtx = 0
    /\ meta' = [meta EXCEPT !.mtx = t]
    /\ callers' = [callers EXCEPT ![t].pc = "search", ![t].locks = @ + 1]
    /\ UNCHANGED bit
    /\ UNCHANGED encoder_vars

\* The key of a cache entry is the address of the local `key` of the call
\* that inserted it (line 2375).  The local lives until that call returns.
KeyLive(entry) ==
    /\ callers[entry.key.thread].calls = entry.key.call
    /\ callers[entry.key.thread].pc # "idle"

\* _mesa_hash_table_search: an entry matches when its hash is the hash of the
\* key searched for and the key it points to compares equal.  Through a live
\* pointer the comparison reads the inserting call's key; through a pointer
\* to a local of a call that has returned it reads whatever the stack holds
\* there now, and may come out either way.
MayMatch(entry, key) ==
    entry.hash = key
CertainMatch(entry, key) ==
    /\ entry.hash = key
    /\ KeyLive(entry)
    /\ get_blit_pipeline_cache_key(callers[entry.key.thread].dst_format) = key

\* lines 2350-2353: the search; on a hit mtx_unlock
BlitSearch(t) ==
    /\ callers[t].pc = "search"
    /\ LET key == get_blit_pipeline_cache_key(callers[t].dst_format)
           may == { k \in 1..Len(meta.cache) : MayMatch(meta.cache[k], key) }
           certain == { k \in 1..Len(meta.cache) : CertainMatch(meta.cache[k], key) }
       IN \E found \in may \cup (IF certain = {} THEN {0} ELSE {}) :
             IF found # 0
             THEN /\ meta' = [meta EXCEPT !.mtx = 0]
                  /\ callers' = [callers EXCEPT ![t].pc = "hit",
                                                ![t].unlocks = @ + 1,
                                                ![t].entry = found]
             ELSE /\ callers' = [callers EXCEPT ![t].pc = "create"]
                  /\ UNCHANGED meta
    /\ UNCHANGED bit
    /\ UNCHANGED encoder_vars

\* lines 2354-2355: *pipeline = entry->data, read from the table after the
\* mutex was released, and return true
BlitHit(t) ==
    /\ callers[t].pc = "hit"
    /\ callers' = [callers EXCEPT ![t].pc = "return",
                                  ![t].pipeline = meta.cache[callers[t].entry].data,
                                  ![t].result = TRUE]
    /\ UNCHANGED <<meta, bit>>
    /\ UNCHANGED encoder_vars

\* lines 2358-2373: the pipeline object, its render pass and its pipeline are
\* created; each of the three may fail.  The object is allocated zeroed;
\* `pass` and `pipeline` tell which of its two handles have been created.
BlitCreate(t) ==
    /\ callers[t].pc = "create"
    /\ \E outcome \in {"ok", "no_memory", "no_render_pass", "no_pipeline"} :
          IF outcome = "no_memory"
          THEN /\ callers' = [callers EXCEPT ![t].pc = "fail"]
               /\ UNCHANGED meta
          ELSE /\ meta' = [meta EXCEPT !.pipelines =
                              Append(@, [dst_format |-> callers[t].dst_format,
                                         pass |-> outcome # "no_render_pass",
                                         pipeline |-> outcome = "ok",
                                         destroyed |-> <<>>,
                                         freed |-> FALSE])]
               /\ callers' = [callers EXCEPT
                     ![t].pipeline = Len(meta.pipelines) + 1,
                     ![t].pc = IF outcome = "ok" THEN "insert" ELSE "fail"]
    /\ UNCHANGED bit
    /\ UNCHANGED encoder_vars

\* lines 2375-2378: _mesa_hash_table_insert(cache, &key, *pipeline), then
\* mtx_unlock
BlitInsert(t) ==
    /\ callers[t].pc = "insert"
    /\ meta' = [meta EXCEPT
          !.mtx = 0,
          !.cache = Append(@, [hash |-> get_blit_pipeline_cache_key(callers[t].dst_format),
                               key |-> [thread |-> t, call |-> callers[t].calls],
                               data |-> callers[t].pipeline])]
    /\ callers' = [callers EXCEPT ![t].pc = "return", ![t].result = TRUE,
                                  ![t].unlocks = @ + 1]
    /\ UNCHANGED bit
    /\ UNCHANGED encoder_vars

\* lines 2384-2391: the handles of the pipeline object that are set are
\* destroyed, the render pass first, and the object is freed
DestroyBlitPipeline(p) ==
    [p EXCEPT !.destroyed = (IF p.pass THEN <<"pass">> ELSE <<>>)
                            \o (IF p.pipeline THEN <<"pipeline">> ELSE <<>>),
              !.freed = TRUE]

\* line 2381: at fail, mtx_unlock
BlitFail(t) ==
    /\ callers[t].pc = "fail"
    /\ meta' = [meta EXCEPT !.mtx = 0]
    /\ callers' = [callers EXCEPT ![t].pc = "destroy", ![t].unlocks = @ + 1]
    /\ UNCHANGED bit
    /\ UNCHANGED encoder_vars

\* an end of the failure path that returns false with a null pipeline, but
\* leaves the pipeline object and its handles alone
BlitDestroy_leaks(t) ==
    /\ callers[t].pc = "destroy"
    /\ callers' = [callers EXCEPT ![t].pc = "return", ![t].pipeline = 0,
                                  ![t].result = FALSE]
    /\ UNCHANGED <<meta, bit>>
    /\ UNCHANGED encoder_vars

\* lines 2383-2393: with the mutex released, what was created is destroyed,
\* *pipeline set to NULL and false returned
BlitDestroy(t) ==
    /\ callers[t].pc = "destroy"
    /\ meta' = [meta EXCEPT
          !.pipelines = IF callers[t].pipeline = 0 THEN @
                        ELSE [@ EXCEPT ![callers[t].pipeline] = DestroyBlitPipeline(@)]]
    /\ callers' = [callers EXCEPT ![t].pc = "return", ![t].pipeline = 0,
                                  ![t].result = FALSE]
    /\ UNCHANGED bit
    /\ UNCHANGED encoder_vars

\* the call returns, and its locals are gone
BlitReturn(t) ==
    /\ callers[t].pc = "return"
    /\ callers' = [callers EXCEPT ![t].pc = "idle"]
    /\ UNCHANGED <<meta, bit>>
    /\ UNCHANGED encoder_vars

NextBlitCache ==
    \E t \in Threads :
       \/ BlitCall(t)
       \/ BlitLockLayout(t)
       \/ BlitLayout(t)
       \/ BlitLockCache(t)
       \/ BlitSearch(t)
       \/ BlitHit(t)
       \/ BlitCreate(t)
       \/ BlitInsert(t)
       \/ BlitFail(t)
       \/ BlitDestroy(t)
       \/ BlitReturn(t)

SpecBlitCache == InitBlitCache /\ [][NextBlitCache]_vars

----------------------------------------------------------------------------
(* C26 *)

\* the pipelines the cache holds for a format
CachedFor(f) ==
    { k \in 1..Len(meta.cache) :
        meta.pipelines[meta.cache[k].data].dst_format = f }

\* C26: under any interleaving of the callers the blit pipeline cache holds
\* at most one pipeline for a destination format; the search, the creation
\* and the insertion for a key are done by the holder of the meta mutex; and
\* a call that succeeds for a format the cache holds returns the pipeline
\* cached for it.
C26_OnePipelinePerKey ==
    /\ \A f \in BlitFormats : Cardinality(CachedFor(f)) <= 1
    /\ \A t \in Threads :
          callers[t].pc \in {"layout", "search", "create", "insert", "fail"}
             => meta.mtx = t
    /\ \A t \in Threads :
          (callers[t].pc = "return" /\ callers[t].result = TRUE) =>
             \E k \in CachedFor(callers[t].dst_format) :
                meta.cache[k].data = callers[t].pipeline

----------------------------------------------------------------------------
(* v3dv_CmdBlitImage: the transfer unit path and the shader path. *)

\* v3dv_tfu_supports_tex_format: the formats the transfer unit can read as
\* textures
v3dv_tfu_supports_tex_format(format) == format # "ETC2_R8G8B8A8_UNORM_BLOCK"

\* 2 * v3d_utile_height(cpp) for the 4-byte formats blitted: the height of a
\* UIF block in pixels
uif_block_h == 8

\* The slices of a 16x8 image with two mip levels, one record per level:
\* a linear image is raster at every level; a tiled image is UIF at level 0
\* and UIF or lineartile at level 1, with the padded height of each level.
ImageLayouts ==
    { << [tiling |-> "RASTER", padded_height |-> 8],
         [tiling |-> "RASTER", padded_height |-> 4] >>,
      << [tiling |-> "UIF_NO_XOR", padded_height |-> 16],
         [tiling |-> "UIF_NO_XOR", padded_height |-> 8] >>,
      << [tiling |-> "UIF_XOR", padded_height |-> 24],
         [tiling |-> "UIF_NO_XOR", padded_height |-> 8] >>,
      << [tiling |-> "UIF_NO_XOR", padded_height |-> 8],
         [tiling |-> "LINEARTILE", padded_height |-> 4] >> }

\* The subresource layers of a blit: a 3-D image of depth 4 is blitted with
\* one layer from base layer 0, a 2-D array image with one or two layers
\* from base layer 0 or 1.
BlitLayers ==
    { [type |-> "3D", depth |-> 4, src_base |-> 0, dst_base |-> 0,
       layer_count |-> 1] }
    \cup
    { [type |-> "2D", depth |-> 1, src_base |-> sb, dst_base |-> db,
       layer_count |-> lc] : sb \in 0..1, db \in 0..1, lc \in 1..2 }

\* The blits recorded: source and destination images of 16x8 pixels with two
\* mip levels and the same layout, one region.  The far corner of the
\* destination region is given relative to the size of the destination level.
\* Either the region, the filter and the formats vary, for one layer of a
\* 2-D image and equal mip levels; or the layout, the mip levels and the
\* layers vary, for the whole level of an R8G8B8A8_UNORM image.
BlitCommands ==
    LET Command(filter, sf, df, slices, level, src_level, s0, d0, dx, dy, scale, ly) ==
           [kind |-> "blit_image", filter |-> filter,
            src_format |-> sf, dst_format |-> df,
            type |-> ly.type,
            src_slices |-> slices, dst_slices |-> slices,
            dst_extent |-> [width |-> 16, height |-> 8, depth |-> ly.depth],
            src_extent |-> [width |-> 16, height |-> 8, depth |-> ly.depth],
            src_mip_level |-> src_level,
            dst_mip_level |-> level,
            src_baseArrayLayer |-> ly.src_base,
            dst_baseArrayLayer |-> ly.dst_base,
            srcOffsets |-> <<s0, [x |-> u_minify(16, level) - dx + scale,
                                  y |-> u_minify(8, level) - dy]>>,
            dstOffsets |-> <<d0, [x |-> u_minify(16, level) - dx,
                                  y |-> u_minify(8, level) - dy]>>,
            layer_count |-> ly.layer_count]
        origin == [x |-> 0, y |-> 0]
        one_layer == [type |-> "2D", depth |-> 1, src_base |-> 0, dst_base |-> 0,
                      layer_count |-> 1]
    IN { Command(filter, sf, df, slices, level, level, s0, d0, dx, dy, scale, one_layer) :
           filter \in {"NEAREST", "LINEAR"},
           df \in {"R8G8B8A8_UNORM", "ETC2_R8G8B8A8_UNORM_BLOCK", "D32_SFLOAT"},
           sf \in {"R8G8B8A8_UNORM", "ETC2_R8G8B8A8_UNORM_BLOCK", "D32_SFLOAT",
                   "B8G8R8A8_UNORM"},
           slices \in { l \in ImageLayouts : l[1].tiling = l[2].tiling },
           level \in 0..1,
           s0 \in {origin, [x |-> 1, y |-> 0]},
           d0 \in {origin, [x |-> 0, y |-> 1]},
           dx \in 0..2, dy \in 0..1,
           scale \in {0, 4} }
       \cup
       { Command(filter, "R8G8B8A8_UNORM", "R8G8B8A8_UNORM", slices, level,
                 src_level, origin, origin, 0, 0, 0, ly) :
           filter \in {"NEAREST", "LINEAR"},
           slices \in ImageLayouts,
           level \in 0..1,
           src_level \in 0..1,
           ly \in BlitLayers }

\* the thread that records the commands
EncoderThread == CHOOSE t \in Threads : \A u \in Threads : t <= u

\* device->meta and the threads when the blit is recorded: a fresh device, or
\* one on which an earlier call of the recording thread has created and
\* cached the pipeline of R8G8B8A8_UNORM
BlitDevices ==
    { [meta |-> NoMeta, callers |-> [t \in Threads |-> IdleCaller]],
      [meta |-> [mtx |-> 0, playout |-> TRUE,
                 cache |-> << [hash |-> get_blit_pipeline_cache_key("R8G8B8A8_UNORM"),
                               key |-> [thread |-> EncoderThread, call |-> 1],
                               data |-> 1] >>,
                 pipelines |-> << [dst_format |-> "R8G8B8A8_UNORM", pass |-> TRUE,
                                   pipeline |-> TRUE, destroyed |-> <<>>,
                                   freed |-> FALSE] >>],
       callers |-> [t \in Threads |->
                      IF t = EncoderThread
                      THEN [IdleCaller EXCEPT !.calls = 1, !.dst_format = "R8G8B8A8_UNORM",
                                              !.pipeline = 1, !.result = TRUE,
                                              !.locks = 2, !.unlocks = 2]
                      ELSE IdleCaller]] }

InitBlit ==
    /\ pc = "blit_tfu"
    /\ cmd \in { c \in BlitCommands :
                    \/ c.src_format = c.dst_format
                    \/ c.src_format = "B8G8R8A8_UNORM" /\ c.dst_format = "R8G8B8A8_UNORM" }
    /\ job = NoJob
    /\ fb = NoFb
    /\ layer = 0
    /\ iter = IterInit
    /\ finished = <<>>
    /\ \E d \in BlitDevices : meta = d.meta /\ callers = d.callers
    /\ bit = NoBit

\* blit_tfu, lines 1794-1845: whether the transfer unit path is taken
blit_tfu(c) ==
    LET dst_width == u_minify(c.dst_extent.width, c.dst_mip_level)
        dst_height == u_minify(c.dst_extent.height, c.dst_mip_level)
    IN IF c.filter # "NEAREST" THEN FALSE
       ELSE IF c.src_format # c.dst_format THEN FALSE
       ELSE IF ~v3dv_tfu_supports_tex_format(c.dst_format) THEN FALSE
       ELSE IF c.dst_format \in DepthFormats THEN FALSE
       ELSE IF c.dst_slices[c.dst_mip_level + 1].tiling = "RASTER" THEN FALSE
       ELSE IF c.srcOffsets[1].x # 0 \/ c.srcOffsets[1].y # 0 THEN FALSE
       ELSE IF c.dstOffsets[1].x # 0 \/ c.dstOffsets[1].y # 0 THEN FALSE
       ELSE IF \/ c.dstOffsets[2].x < dst_width - 1
               \/ c.dstOffsets[2].y < dst_height - 1 THEN FALSE
       ELSE IF \/ c.srcOffsets[2].x # c.dstOffsets[2].x
               \/ c.srcOffsets[2].y # c.dstOffsets[2].y THEN FALSE
       ELSE TRUE

\* emit_tfu_job, lines 1709-1785: the TFU job for one layer.  ios holds the
\* size, iia and ioa the layers addressed, icfg_format and ioa_format the
\* tilings of the two slices the function looks up, iis the source stride
\* field and opad the output padding in UIF blocks (32-bit arithmetic).
emit_tfu_job(c, dst_mip_level, dst_layer, src_mip_level, src_layer, width, height) ==
    LET src_slice == c.src_slices[src_mip_level + 1]
        dst_slice == c.dst_slices[src_mip_level + 1]
        implicit_padded_height == align(height, uif_block_h)
        \* (a - b) / uif_block_h of two uint32_t; a - b wraps modulo 2^32
        opad == IF dst_slice.padded_height >= implicit_padded_height
                THEN (dst_slice.padded_height - implicit_padded_height) \div uif_block_h
                ELSE 536870912 - DIV_ROUND_UP(implicit_padded_height - dst_slice.padded_height, uif_block_h)
    IN [type |-> "tfu", width |-> width, height |-> height,
        src_mip_level |-> src_mip_level, src_layer |-> src_layer,
        dst_mip_level |-> dst_mip_level, dst_layer |-> dst_layer,
        icfg_format |-> src_slice.tiling,
        ioa_format |-> dst_slice.tiling,
        iis |-> IF src_slice.tiling \in {"UIF_NO_XOR", "UIF_XOR"}
                THEN src_slice.padded_height \div uif_block_h
                ELSE IF src_slice.tiling = "RASTER"
                     THEN u_minify(c.src_extent.width, src_mip_level)
                     ELSE 0,
        opad |-> IF dst_slice.tiling \in {"UIF_NO_XOR", "UIF_XOR"}
                 THEN opad
                 ELSE 0]

\* blit_tfu, lines 1847-1872: one TFU job per layer, each over the whole
\* destination level
TfuJobs(c) ==
    [i \in 1..c.layer_count |->
        LET src_layer == IF c.type = "3D"
                         THEN u_minify(c.src_extent.depth, c.src_mip_level)
                         ELSE c.src_baseArrayLayer + (i - 1)
            dst_layer == IF c.type = "3D"
                         THEN u_minify(c.dst_extent.depth, c.dst_mip_level)
                         ELSE c.dst_baseArrayLayer + (i - 1)
        IN emit_tfu_job(c, c.dst_mip_level, dst_layer, c.src_mip_level, src_layer,
                        u_minify(c.dst_extent.width, c.dst_mip_level),
                        u_minify(c.dst_extent.height, c.dst_mip_level))]

\* v3dv_CmdBlitImage, line 2694: blit_tfu for the region
BlitTfu ==
    /\ pc = "blit_tfu"
    /\ IF blit_tfu(cmd)
       THEN /\ finished' = finished \o TfuJobs(cmd)
            /\ pc' = "done"
       ELSE /\ finished' = finished
            /\ pc' = "blit_shader"
    /\ UNCHANGED <<cmd, job, fb, layer, iter>>
    /\ UNCHANGED other_vars

----------------------------------------------------------------------------
(* C27 *)

\* the conditions of the transfer unit path
TfuPathConditions ==
    /\ cmd.filter = "NEAREST"
    /\ cmd.src_format = cmd.dst_format
    /\ v3dv_tfu_supports_tex_format(cmd.dst_format)
    /\ cmd.dst_format \notin DepthFormats
    /\ cmd.dstOffsets[1] = [x |-> 0, y |-> 0]
    /\ cmd.dstOffsets[2].x >= u_minify(cmd.dst_extent.width, cmd.dst_mip_level)
    /\ cmd.dstOffsets[2].y >= u_minify(cmd.dst_extent.height, cmd.dst_mip_level)
    /\ cmd.srcOffsets[2].x - cmd.srcOffsets[1].x = cmd.dstOffsets[2].x - cmd.dstOffsets[1].x
    /\ cmd.srcOffsets[2].y - cmd.srcOffsets[1].y = cmd.dstOffsets[2].y - cmd.dstOffsets[1].y

\* C27: once blit_tfu has run for a region, TFU jobs have been emitted only if
\* the filter is nearest, the formats are the same, texture-supported and not
\* depth/stencil, the destination region starts at (0,0) and covers the whole
\* destination mip level, and there is no scaling; otherwise no TFU job was
\* emitted and the shader path is (or has been) tried.
C27_TfuPathOnlyWhen ==
    (pc # "blit_tfu") =>
       IF TfuPathConditions
       THEN TRUE
       ELSE \A k \in 1..Len(finished) : finished[k].type = "blit_draw"

----------------------------------------------------------------------------
(* The instruction packing tests: bit_fmod and bit_fma. *)

\* inmod & (1 << k)
ModBit(inmod, k) == (inmod \div Pow2(k)) % 2 = 1

\* bit_fmod_helper, line 198: the tests that cannot run on FMA
SkipOnFma_any_size(fma, size, abs0, abs1) == fma /\ abs0 /\ abs1
SkipOnFma(fma, size, abs0, abs1) == fma /\ size = 16 /\ abs0 /\ abs1

\* The end of an iteration of the inner loop: the next input modifier, then
\* the next output modifier, then (in bit_fmod / bit_fma) the next size, then
\* the end of the test.
BitAdvance(b, inmods) ==
    IF b.inmod + 1 < inmods THEN [b EXCEPT !.inmod = @ + 1]
    ELSE IF b.outmod + 1 < 4 THEN [b EXCEPT !.inmod = 0, !.outmod = @ + 1]
    ELSE IF b.size * 2 <= 32 THEN [b EXCEPT !.inmod = 0, !.outmod = 0, !.size = @ * 2]
    ELSE [b EXCEPT !.pc = "done"]

\* What bit_test_single may return: it compares the simulation with the run
\* on the device, and either may come out, at every call.
TestOutcomes(b) == BOOLEAN

\* no line has been printed
NoLine == [test |-> "", class |-> "", size |-> 0, slot |-> "", outmod |-> 0,
           inmod |-> 0]

\* The instruction under test: two register sources for the two-source
\* helper (lines 177-186), three for the fused multiply-add helper (lines
\* 218-228); the initializers leave its constant zero.
TestedIns(b) ==
    [type |-> b.class,
     src |-> IF b.class = "FMA" THEN <<"R0", "R1", "R2">> ELSE <<"R0", "R1">>,
     dest |-> IF b.class = "FMA" THEN "R3" ELSE "R2",
     constant |-> 0]

\* bit_test_single, lines 46-142: the four clauses of the program that is
\* packed.  The clauses come from rzalloc, so what the code does not set is
\* zero ("NONE" for an empty slot or an unset type).
bit_test_single_clauses(ins, fma) ==
    LET none == [type |-> "NONE", src |-> <<>>, dest |-> "NONE", constant |-> 0]
        ldubo == [type |-> "LOAD_UNIFORM", src |-> <<"CONSTANT", "ZERO">>,
                  dest |-> "R0", constant |-> 0]
        ldva == [type |-> "LOAD_VAR_ADDRESS",
                 src |-> <<"CONSTANT", "R61", "R62", "NONE">>,
                 dest |-> "R32", constant |-> 0]
        st == [type |-> "STORE_VAR", src |-> <<"R0", "R32", "R33", "R34">>,
               dest |-> "NONE", constant |-> 0]
    IN << [clause_type |-> "UBO", add |-> ldubo, fma |-> none,
           constant_count |-> 1, constants |-> <<0>>,
           scoreboard_id |-> 0, dependencies |-> 0,
           data_register_write_barrier |-> FALSE],
          [clause_type |-> "NONE",
           add |-> IF fma THEN none ELSE ins, fma |-> IF fma THEN ins ELSE none,
           constant_count |-> 1, constants |-> <<ins.constant>>,
           scoreboard_id |-> 1, dependencies |-> 1,
           data_register_write_barrier |-> TRUE],
          [clause_type |-> "UBO", add |-> ldva, fma |-> none,
           constant_count |-> 0, constants |-> <<>>,
           scoreboard_id |-> 0, dependencies |-> 2,
           data_register_write_barrier |-> TRUE],
          [clause_type |-> "SSBO_STORE", add |-> st, fma |-> none,
           constant_count |-> 0, constants |-> <<>>,
           scoreboard_id |-> 1, dependencies |-> 1,
           data_register_write_barrier |-> TRUE] >>

\* One call of bit_test_single and the line printed when it fails; of the
\* output `printed` counts the lines and `line` is the last one
BitTested(b, succ, line) ==
    [b EXCEPT !.prog = bit_test_single_clauses(TestedIns(b), b.fma),
              !.tested = Append(@, [size |-> b.size, outmod |-> b.outmod,
                                    inmod |-> b.inmod]),
              !.printed = IF succ THEN @ ELSE @ + 1,
              !.line = IF succ THEN @ ELSE line]

InitBit ==
    /\ pc = "idle"
    /\ cmd = NoCmd
    /\ job = NoJob
    /\ fb = NoFb
    /\ layer = 0
    /\ iter = IterInit
    /\ finished = <<>>
    /\ meta = NoMeta
    /\ callers = NoCallers
    /\ bit = NoBit

\* bit_fmod: bit_fmod_helper(dev, BI_ADD, sz, true, ...) for sz = 16, 32
bit_fmod ==
    /\ bit.pc = "idle"
    /\ bit' = [pc |-> "fmod", class |-> "ADD", size |-> 16, fma |-> TRUE,
               outmod |-> 0, inmod |-> 0, prog |-> <<>>,
               tested |-> <<>>, skipped |-> <<>>, printed |-> 0, line |-> NoLine]
    /\ UNCHANGED <<meta, callers>>
    /\ UNCHANGED encoder_vars

\* bit_fma: bit_fma_helper(dev, sz, ...) for sz = 16, 32
bit_fma ==
    /\ bit.pc = "idle"
    /\ bit' = [pc |-> "fma", class |-> "FMA", size |-> 16, fma |-> TRUE,
               outmod |-> 0, inmod |-> 0, prog |-> <<>>,
               tested |-> <<>>, skipped |-> <<>>, printed |-> 0, line |-> NoLine]
    /\ UNCHANGED <<meta, callers>>
    /\ UNCHANGED encoder_vars

\* bit_fmod_helper, lines 189-208: one iteration of the inner loop
bit_fmod_helper ==
    /\ bit.pc = "fmod"
    /\ IF SkipOnFma(bit.fma, bit.size, ModBit(bit.inmod, 0), ModBit(bit.inmod, 1))
       THEN bit' = BitAdvance([bit EXCEPT !.skipped =
                                  Append(@, [size |-> bit.size, outmod |-> bit.outmod,
                                             inmod |-> bit.inmod])], 16)
       ELSE \E succ \in TestOutcomes(bit) :
               bit' = BitAdvance(BitTested(bit, succ,
                         [test |-> "fmod", class |-> bit.class, size |-> bit.size,
                          slot |-> IF bit.fma THEN "fma" ELSE "add",
                          outmod |-> bit.outmod, inmod |-> bit.inmod]), 16)
    /\ UNCHANGED <<meta, callers>>
    /\ UNCHANGED encoder_vars

\* bit_fma_helper, lines 231-243: one iteration of the inner loop
bit_fma_helper_stop_at_failure ==
    /\ bit.pc = "fma"
    /\ \E succ \in TestOutcomes(bit) :
          LET b == BitTested(bit, succ,
                      [test |-> "fma", class |-> bit.class, size |-> bit.size,
                       slot |-> "fma", outmod |-> bit.outmod, inmod |-> bit.inmod])
          IN bit' = IF succ THEN BitAdvance(b, 8) ELSE [b EXCEPT !.pc = "done"]
    /\ UNCHANGED <<meta, callers>>
    /\ UNCHANGED encoder_vars
bit_fma_helper ==
    /\ bit.pc = "fma"
    /\ \E succ \in TestOutcomes(bit) :
          bit' = BitAdvance(BitTested(bit, succ,
                    [test |-> "fma", class |-> bit.class, size |-> bit.size,
                     slot |-> "fma", outmod |-> bit.outmod, inmod |-> bit.inmod]), 8)
    /\ UNCHANGED <<meta, callers>>
    /\ UNCHANGED encoder_vars

NextBit ==
    \/ bit_fmod
    \/ bit_fma
    \/ bit_fmod_helper
    \/ bit_fma_helper

SpecBit == InitBit /\ [][NextBit]_vars

----------------------------------------------------------------------------
(* C29 *)

\* the combinations of one size a finished test has gone through
TestedAt(size) ==
    { k \in 1..Len(bit.tested) : bit.tested[k].size = size }
SkippedAt(size) ==
    { k \in 1..Len(bit.skipped) : bit.skipped[k].size = size }

\* every combination of `inmods` input modifiers and the four output
\* modifiers is gone through once at each size
SweepsAll(inmods) ==
    \A size \in {16, 32} :
       /\ Cardinality(TestedAt(size)) + Cardinality(SkippedAt(size)) = 4 * inmods
       /\ \A outmod \in 0..3, inmod \in 0..(inmods - 1) :
             Cardinality({ k \in TestedAt(size) :
                             /\ bit.tested[k].outmod = outmod
                             /\ bit.tested[k].inmod = inmod })
             + Cardinality({ k \in SkippedAt(size) :
                               /\ bit.skipped[k].outmod = outmod
                               /\ bit.skipped[k].inmod = inmod }) = 1

\* the skipped combinations are those with absolute value on both sources at
\* 16 bits on the fma slot
SkipsOnlyAbsAbs16 ==
    \A size \in {16, 32}, outmod \in 0..3, inmod \in 0..15 :
       (\E k \in SkippedAt(size) : /\ bit.skipped[k].outmod = outmod
                                   /\ bit.skipped[k].inmod = inmod)
          <=> (bit.class = "ADD" /\ bit.fma /\ size = 16
               /\ ModBit(inmod, 0) /\ ModBit(inmod, 1))

\* C29 (amended): a finished sweep has gone through every combination of
\* output modifier and input modifier once at each size: 4 x 16 = 64 for the
\* two-source test and 4 x 8 = 32 for the fused multiply-add test; the
\* combinations skipped are exactly those with absolute value on both
\* sources at 16 bits on the fma slot, and every other one was tested once.
C29_SweepComplete ==
    (bit.pc = "done") =>
       /\ bit.class = "ADD" => SweepsAll(16)
       /\ bit.class = "FMA" => SweepsAll(8)
       /\ SkipsOnlyAbsAbs16

\* C29 as stated: 64 combinations for the two-source test and 8 for the
\* fused multiply-add test.
C29_Original ==
    (bit.pc = "done") =>
       /\ bit.class = "ADD" =>
             \A size \in {16, 32} :
                Cardinality(TestedAt(size)) + Cardinality(SkippedAt(size)) = 64
       /\ bit.class = "FMA" =>
             \A size \in {16, 32} :
                Cardinality(TestedAt(size)) + Cardinality(SkippedAt(size)) = 8
       /\ SkipsOnlyAbsAbs16

\* a finished two-source sweep, which skipped 16 combinations and tested 112
C29_Witness ==
    /\ bit.pc = "done"
    /\ bit.class = "ADD"
    /\ Len(bit.skipped) = 16
    /\ Len(bit.tested) = 112

----------------------------------------------------------------------------
(* C30 *)

\* a step in which bit_test_single reported a mismatch
TestFails == bit'.printed = bit.printed + 1

\* the combination the loop is at
AtCombination == [size |-> bit.size, outmod |-> bit.outmod, inmod |-> bit.inmod]

\* the last combination of a sweep
LastCombination(inmods) ==
    /\ bit.size = 32
    /\ bit.outmod = 3
    /\ bit.inmod = inmods - 1

\* C30: a mismatch prints one line that names the test, the size, the output
\* modifier and the input modifier of the combination that failed, and the
\* sweep goes on with the next combination (it ends only after the last
\* one); a finished sweep has tested every combination it does not skip,
\* whatever was reported on the way.
C30_FailureDoesNotAbort ==
    /\ [][ (bit.pc \in {"fmod", "fma"} /\ TestFails) =>
             /\ bit'.line.test = bit.pc
             /\ bit'.line.size = bit.size
             /\ bit'.line.outmod = bit.outmod
             /\ bit'.line.inmod = bit.inmod
             /\ bit'.tested = Append(bit.tested, AtCombination)
             /\ IF LastCombination(IF bit.pc = "fmod" THEN 16 ELSE 8)
                THEN bit'.pc = "done"
                ELSE bit'.pc = bit.pc ]_vars
    /\ [](bit.pc = "done" =>
             Len(bit.tested) = IF bit.class = "ADD" THEN 112 ELSE 64)

\* a finished sweep in which the first combination failed and no other
C30_Witness ==
    /\ bit.pc = "done"
    /\ bit.printed = 1
    /\ bit.line.size = 16
    /\ bit.line.outmod = 0
    /\ bit.line.inmod = 0
    /\ Len(bit.tested) >= 64

----------------------------------------------------------------------------
(* C31 *)

\* the instructions of a clause's bundle
ClauseInstructions(clause) ==
    { i \in {clause.add, clause.fma} : i.type # "NONE" }

\* the embedded constants the instructions of a clause refer to
ReferencedConstants(clause) ==
    { i.constant : i \in { j \in ClauseInstructions(clause) :
                              \E k \in 1..Len(j.src) : j.src[k] = "CONSTANT" } }

\* C31: in the program built for a test, the constant count of each of the
\* four clauses is the number of distinct embedded constants the
\* instructions of the clause refer to.
C31_ConstantCount ==
    (bit.pc # "idle") =>
       \A k \in 1..Len(bit.prog) :
          bit.prog[k].constant_count = Cardinality(ReferencedConstants(bit.prog[k]))

----------------------------------------------------------------------------
(* Buffer copies and fills of many sizes, run to their end.                *)

\* byte sizes of the copies tried beside 1..MaxCopyBytes: 4097 items of 1,
\* 2 and 4 bytes, 8193 items of 1 byte, and more than 4096 x 4096 items
LargeCopyBytes == {520, 4097, 4100, 8193, 8194, 16388, 67108868}

\* the state v3dv_CmdCopyBuffer leaves for one region, or the state
\* v3dv_CmdFillBuffer leaves at the loop of fill_buffer
InitBuffers ==
    /\ \/ /\ pc = "region"
          /\ \E size \in (1..MaxCopyBytes) \cup LargeCopyBytes :
             \E src \in {0, 8} : \E dst \in {0, 16} :
                cmd = [kind |-> "copy_buffer",
                       regions |-> <<[srcOffset |-> src, dstOffset |-> dst,
                                      size |-> size]>>]
          /\ iter = IterInit
       \/ /\ pc = "copy_loop"
          /\ \E n \in PixelCounts : \E offset \in {0, 16} :
                /\ cmd = [kind |-> "fill_buffer", offset |-> offset,
                          size |-> 4 * n, data |-> 43981,
                          size_argument |-> 4 * n,
                          buffer_size |-> offset + 4 * n]
                /\ iter = [IterInit EXCEPT !.item_size = 4, !.num_items = n,
                                           !.dst_offset = offset,
                                           !.vk_format = "R8G8B8A8_UINT"]
    /\ job = NoJob
    /\ fb = NoFb
    /\ layer = 0
    /\ finished = <<>>
    /\ OthersIdle

NextBuffers ==
    \/ CopyBufferRegion
    \/ CopyLoop
    \/ Prologue
    \/ FrameSetup
    \/ CopyBufferPerTileList
    \/ FillBufferPerTileList
    \/ SupertileCoordinates
    \/ EndOfRendering
    \/ FinishJob

SpecBuffers == InitBuffers /\ [][NextBuffers]_vars

----------------------------------------------------------------------------
(* C33 *)

\* the step of the job loop that follows a finished job
LoopStep == pc = "finish" /\ pc' = "copy_loop"

\* the items of the job that is being finished
JobItems == job.frame_tiling.width * job.frame_tiling.height

\* the items of the whole copy or fill
TotalItems ==
    IF cmd.kind = "fill_buffer" THEN cmd.size \div 4
    ELSE cmd.regions[1].size \div CopyItem(cmd.regions[1].size).item_size

\* C33: in a buffer copy or fill of N > 0 items every finished job takes
\* width x height items off the remaining count, with 1 <= width x height
\* <= remaining, so the count never goes below 0 and at most N jobs are
\* made; a job is started only while items remain.
C33_LoopTerminates ==
    /\ [][LoopStep =>
            /\ 1 <= JobItems
            /\ JobItems <= iter.num_items
            /\ iter'.num_items = iter.num_items - JobItems]_vars
    /\ [](iter.num_items >= 0)
    /\ [](pc # "region" => Len(finished) + iter.num_items <= TotalItems)
    /\ [][(pc = "copy_loop" /\ pc' = "prologue") => iter.num_items > 0]_vars

\* a copy of 4097 one-byte items has returned after two jobs, none left
C33_Witness ==
    /\ pc = "done"
    /\ cmd.kind = "copy_buffer"
    /\ cmd.regions[1].size = 4097
    /\ Len(finished) = 2
    /\ iter.num_items = 0

----------------------------------------------------------------------------
(* C34 *)

\* the item size, and the offsets the copy or fill starts at
ItemSize ==
    IF cmd.kind = "fill_buffer" THEN 4 ELSE CopyItem(cmd.regions[1].size).item_size
FirstDstOffset ==
    IF cmd.kind = "fill_buffer" THEN cmd.offset ELSE cmd.regions[1].dstOffset
FirstSrcOffset ==
    IF cmd.kind = "fill_buffer" THEN 0 ELSE cmd.regions[1].srcOffset
TotalBytes ==
    IF cmd.kind = "fill_buffer" THEN cmd.size ELSE cmd.regions[1].size

\* C34: the k-th job of a buffer copy or fill starts where the jobs before
\* it end: its offsets are the first offsets plus item_size times the items
\* of the earlier jobs; the items of the finished jobs and the items that
\* remain add up to num_items, so that when none remains the jobs' byte
\* ranges are [offset, offset + size) cut into consecutive pieces.
C34_JobsPartition ==
    (pc # "region" \/ finished # <<>>) =>
       /\ \A k \in 1..Len(finished) :
             /\ finished[k].dst_offset = FirstDstOffset + ItemSize * ItemsDone(k - 1)
             /\ cmd.kind = "copy_buffer" =>
                   finished[k].src_offset = FirstSrcOffset + ItemSize * ItemsDone(k - 1)
       /\ pc \in {"copy_loop", "done"} =>
             /\ ItemsDone(Len(finished)) + iter.num_items = TotalItems
             /\ iter.dst_offset = FirstDstOffset + ItemSize * ItemsDone(Len(finished))
       /\ (pc = "done" /\ iter.num_items = 0) =>
             /\ ItemSize * ItemsDone(Len(finished)) = TotalBytes
             /\ iter.dst_offset = FirstDstOffset + TotalBytes

\* a copy of 8194 bytes from offset 8 to offset 16 has returned: 4096 items
\* of two bytes, then one
C34_Witness ==
    /\ pc = "done"
    /\ cmd.kind = "copy_buffer"
    /\ cmd.regions[1] = [srcOffset |-> 8, dstOffset |-> 16, size |-> 8194]
    /\ Len(finished) = 2
    /\ finished[2].dst_offset = 16 + 8192
    /\ finished[2].src_offset = 8 + 8192
    /\ iter.num_items = 0

----------------------------------------------------------------------------
(* C15 *)

\* the loop of copy_buffer or fill_buffer has been entered
InBufferLoop ==
    /\ cmd.kind \in {"fill_buffer", "copy_buffer"}
    /\ pc # "region" \/ finished # <<>>

\* the jobs of a buffer operation of 4097 or 8193 items: a first job of
\* w x h, which leaves one item, and a second job of 1 x 1
TwoJobs(w, h) ==
    /\ Len(finished) <= 2
    /\ (Len(finished) = 0 /\ SizedJob) => (FrameW = w /\ FrameH = h)
    /\ Len(finished) >= 1 =>
          /\ finished[1].frame_tiling.width = w
          /\ finished[1].frame_tiling.height = h
    /\ (Len(finished) = 1 /\ pc = "copy_loop") => iter.num_items = 1
    /\ (Len(finished) = 1 /\ SizedJob) => (FrameW = 1 /\ FrameH = 1)
    /\ Len(finished) = 2 =>
          /\ finished[2].frame_tiling.width = 1
          /\ finished[2].frame_tiling.height = 1
          /\ iter.num_items = 0

\* C15 (as amended): a fill of 4100 bytes is 1025 items of 4 bytes in a
\* single job whose frame, 1025 x 1, covers them; a fill or copy of at most
\* 4096 items is always a single job; a further job is created whenever
\* the frame chosen holds fewer items than remain, which
\* happens above 4096 x 4096 items and also below, when an odd width above
\* 4096 is halved: 4097 items, of 1, 2 or 4 bytes, are a job of 64 x 64 and
\* then a job of 1 x 1, and 8193 items a job of 128 x 64 and then 1 x 1.
C15_BufferJobs ==
    InBufferLoop =>
       /\ iter.item_size = ItemSize
       /\ TotalBytes = 4100 =>
             /\ iter.item_size = 4
             /\ TotalItems = 1025
             /\ Len(finished) <= 1
             /\ (Len(finished) = 0 /\ pc = "copy_loop") => iter.num_items = 1025
             /\ SizedJob => (FrameW = 1025 /\ FrameH = 1)
             /\ Len(finished) = 1 => iter.num_items = 0
       /\ TotalItems <= max_dim_pixels =>
             /\ Len(finished) <= 1
             /\ SizedJob => FrameW * FrameH = TotalItems
       /\ TotalItems = 4097 => TwoJobs(64, 64)
       /\ TotalItems = 8193 => TwoJobs(128, 64)
       /\ TotalItems > max_pixels =>
             /\ (Len(finished) = 0 /\ SizedJob) =>
                   FrameW * FrameH = max_pixels
             /\ Len(finished) >= 1 =>
                   /\ ItemsDone(1) = max_pixels
                   /\ pc = "copy_loop" /\ Len(finished) = 1 =>
                         iter.num_items = TotalItems - max_pixels
       /\ \A k \in 1..Len(finished) :
             k < Len(finished) \/ SizedJob => ItemsDone(k) < TotalItems
       /\ SizedJob => ItemsDone(Len(finished)) + FrameW * FrameH <= TotalItems
       /\ pc = "copy_loop" =>
             /\ iter.num_items = TotalItems - ItemsDone(Len(finished))
             /\ iter.num_items > 0 <=> ItemsDone(Len(finished)) < TotalItems

\* C15 as stated: a fill or copy of at most 4096 x 4096 items never takes a
\* second job.
C15_Original ==
    (InBufferLoop /\ TotalItems <= max_pixels) =>
       /\ Len(finished) <= 1
       /\ Len(finished) = 1 => ~job.open

\* the fill of 4100 bytes is done, in one job of 1025 x 1
C15_Witness ==
    /\ pc = "done"
    /\ cmd.kind = "fill_buffer"
    /\ cmd.size = 4100
    /\ iter.item_size = 4
    /\ Len(finished) = 1
    /\ finished[1].frame_tiling.width = 1025
    /\ finished[1].frame_tiling.height = 1

----------------------------------------------------------------------------
(* C35 *)

\* the linear load and the linear store of the job of a buffer copy
LinearAccesses ==
    IndicesOf(job.indirect.recs, {"LOAD_TILE_BUFFER_GENERAL",
                                  "STORE_TILE_BUFFER_GENERAL"})

\* the first byte after the rows a record addresses: `height` rows of
\* `width` items, `stride` bytes from one row to the next
RowsEnd(rec) ==
    rec.address.offset + (job.frame_tiling.height - 1) * rec.height_in_ub_or_stride
       + job.frame_tiling.width * iter.item_size

\* C35: in every job of a buffer copy the stride of the linear load and of
\* the linear store is the frame width times the item size, so the rows of
\* the frame address the width x height x item_size bytes of the job and
\* the store stays below dstOffset + size.
C35_CopyStride ==
    (cmd.kind = "copy_buffer" /\ pc \in {"supertiles", "end_of_rendering", "finish"}) =>
       \A k \in LinearAccesses :
          LET rec == job.indirect.recs[k]
          IN /\ rec.height_in_ub_or_stride = job.frame_tiling.width * iter.item_size
             /\ RowsEnd(rec) = rec.address.offset + JobItems * iter.item_size
             /\ rec.kind = "STORE_TILE_BUFFER_GENERAL" =>
                   RowsEnd(rec) <= cmd.regions[1].dstOffset + cmd.regions[1].size

----------------------------------------------------------------------------
(* C36 *)

\* the range of a clear, resolved as the claim says
ClearedRange == cmd.regions[1]
FirstLevel == ClearedRange.baseMipLevel
LevelsEnd ==
    FirstLevel + (IF ClearedRange.levelCount = VK_REMAINING
                  THEN cmd.image.levels - FirstLevel
                  ELSE ClearedRange.levelCount)
FirstLayer == IF cmd.image.type = "3D" THEN 0 ELSE ClearedRange.baseArrayLayer
LayersEnd(level) ==
    IF cmd.image.type = "3D" THEN u_minify(cmd.image.extent.depth, level)
    ELSE FirstLayer + (IF ClearedRange.layerCount = VK_REMAINING
                       THEN cmd.image.array_size - FirstLayer
                       ELSE ClearedRange.layerCount)

\* the clear has gone through all its levels
ClearComplete ==
    /\ pc \in {"region", "done"}
    /\ iter.i = 1
    /\ iter.level >= iter.max_level

\* C36: the jobs of an image clear are one per (level, layer) of the range,
\* levels outer and layers inner: the first job is the first layer of the
\* base level, each further job is the next layer of the same level or, after
\* the last layer of a level, the first layer of the next level, and a clear
\* that went through ends with the last layer of the last level; each job
\* has a frame of one layer and of the size of its level, and stores to its
\* layer and level.
C36_ClearJobs ==
    cmd.kind \in ClearKinds =>
       /\ \A k \in 1..Len(finished) :
             LET j == finished[k]
             IN /\ j.level \in FirstLevel..(LevelsEnd - 1)
                /\ j.l \in FirstLayer..(LayersEnd(j.level) - 1)
                /\ j.frame_tiling.layers = 1
                /\ j.frame_tiling.width = u_minify(cmd.image.extent.width, j.level)
                /\ j.frame_tiling.height = u_minify(cmd.image.extent.height, j.level)
                /\ k = 1 => (j.level = FirstLevel /\ j.l = FirstLayer)
                /\ k > 1 =>
                      LET p == finished[k - 1]
                      IN IF p.l + 1 < LayersEnd(p.level)
                         THEN j.level = p.level /\ j.l = p.l + 1
                         ELSE j.level = p.level + 1 /\ j.l = FirstLayer
       /\ ClearComplete =>
             /\ finished # <<>>
             /\ finished[Len(finished)].level = LevelsEnd - 1
             /\ finished[Len(finished)].l = LayersEnd(LevelsEnd - 1) - 1
       /\ pc = "finish" =>
             \E k \in IndicesOf(job.indirect.recs, {"STORE_TILE_BUFFER_GENERAL"}) :
                job.indirect.recs[k].address = [bo |-> "image",
                                                offset |-> [level |-> iter.level,
                                                            layer |-> iter.l]]

\* a clear of the last layer of all levels of a 2D array image has recorded
\* a job for each level
C36_Witness ==
    /\ cmd.kind \in ClearKinds
    /\ ClearComplete
    /\ cmd.image.type = "2D"
    /\ FirstLayer > 0
    /\ FirstLevel = 0
    /\ Len(finished) = cmd.image.levels
    /\ Len(finished) > 1

----------------------------------------------------------------------------
(* C37 *)

\* the slice of the destination image a TFU job writes
DstSliceOf(j) == cmd.dst_slices[j.dst_mip_level + 1]

\* the output padding of a destination slice for a job of the given height
OpadOf(slice, height) ==
    IF slice.tiling \in {"UIF_NO_XOR", "UIF_XOR"}
    THEN (slice.padded_height - align(height, uif_block_h)) \div uif_block_h
    ELSE 0

\* C37: in every TFU job of a blit the tiling written to the output format
\* field and the padded height behind the output padding field are those of
\* the destination image's slice at the destination mip level, whether or not
\* the source mip level is the same.
C37_TfuDestinationSlice ==
    (cmd.kind = "blit_image") =>
       \A k \in 1..Len(finished) :
          finished[k].type = "tfu" =>
             /\ finished[k].ioa_format = DstSliceOf(finished[k]).tiling
             /\ finished[k].opad = OpadOf(DstSliceOf(finished[k]), finished[k].height)

----------------------------------------------------------------------------
(* C38 *)

\* the layer indices of the k-th TFU job of a blit address layers of the
\* two images
LayersExist(k) ==
    IF cmd.type = "3D"
    THEN /\ finished[k].src_layer < u_minify(cmd.src_extent.depth, cmd.src_mip_level)
         /\ finished[k].dst_layer < u_minify(cmd.dst_extent.depth, cmd.dst_mip_level)
    ELSE /\ k - 1 < cmd.layer_count
         /\ finished[k].src_layer = cmd.src_baseArrayLayer + (k - 1)
         /\ finished[k].dst_layer = cmd.dst_baseArrayLayer + (k - 1)

\* C38: every TFU job emitted by a transfer unit blit addresses a layer that
\* exists: for a 3-D image the source and destination layer index is below
\* minify(depth, mip level), for other images it is baseArrayLayer + i with
\* i below the layer count of the region.
C38_TfuLayersExist ==
    (cmd.kind = "blit_image") =>
       \A k \in 1..Len(finished) :
          finished[k].type = "tfu" => LayersExist(k)

\* the jobs of blits of images that are not 3-D address existing layers
C38_ArrayLayersExist ==
    (cmd.kind = "blit_image" /\ cmd.type # "3D") =>
       \A k \in 1..Len(finished) :
          finished[k].type = "tfu" => LayersExist(k)

----------------------------------------------------------------------------
(* blit_shader: the per-layer resources of the shader blit. *)

\* The shader blits recorded: linear filtering (never a transfer unit blit),
\* colour or depth format, 2-D array or 3-D images, the whole of level 0.
ShaderBlitCommands ==
    { c \in BlitCommands :
        /\ c.filter = "LINEAR"
        /\ c.src_format = c.dst_format
        /\ c.dst_format \in {"R8G8B8A8_UNORM", "D32_SFLOAT"}
        /\ c.dst_slices[1].tiling = "UIF_NO_XOR" /\ c.dst_slices[1].padded_height = 16
        /\ c.src_mip_level = 0 /\ c.dst_mip_level = 0
        /\ c.srcOffsets = << [x |-> 0, y |-> 0], [x |-> 16, y |-> 8] >>
        /\ c.dstOffsets = << [x |-> 0, y |-> 0], [x |-> 16, y |-> 8] >> }

\* the locals of blit_shader before the loop: i, ok, dirty_dynamic_state, the
\* handles held by the locals of the loop body (0: never written), the number
\* of handles handed out, the calls of meta_state_push and meta_state_pop, and
\* the create and destroy calls made, in order
BlitShaderLocals ==
    [i |-> 0, ok |-> TRUE, dirty_dynamic_state |-> 0,
     dst_image_view |-> 0, fb |-> 0, set |-> 0, sampler |-> 0,
     src_image_view |-> 0,
     handles |-> 0, pushes |-> 0, pops |-> 0, calls |-> <<>>]

\* v3dv_CmdBlitImage, lines 2696-2698: blit_shader is called for the region
BlitShader ==
    /\ pc = "blit_shader"
    /\ iter' = BlitShaderLocals
    /\ pc' = "blit_shader_enter"
    /\ UNCHANGED <<cmd, job, fb, layer, finished>>
    /\ UNCHANGED other_vars

\* v3dv_CmdBlitImage, lines 2696-2698: after blit_shader; a region it did not
\* handle is an unsupported blit
AfterBlitShader(ok) == IF ok THEN "done" ELSE "unsupported_blit"

\* the state at the call of blit_shader on a fresh device
InitBlitShader ==
    /\ pc = "blit_shader_enter"
    /\ cmd \in ShaderBlitCommands
    /\ job = NoJob
    /\ fb = NoFb
    /\ layer = 0
    /\ iter = BlitShaderLocals
    /\ finished = <<>>
    /\ meta = NoMeta
    /\ callers = [t \in Threads |-> IdleCaller]
    /\ bit = NoBit

\* a create call that succeeded in iteration it.i and wrote handle h to the
\* local named kind
Created(it, kind, h) ==
    [it EXCEPT ![kind] = h, !.handles = h,
               !.calls = Append(@, [op |-> "create", kind |-> kind, handle |-> h, i |-> it.i])]

\* the destroy calls of the labels from the given one to the end of the loop
\* body, lines 2654-2663, in the order of the code
CleanupFrom(label) ==
    LET all == << "sampler", "src_image_view", "set", "fb", "dst_image_view" >>
        first == CASE label = "fail_job" -> 1
                   [] label = "fail_src_image_view" -> 2
                   [] label = "fail_sampler" -> 3
                   [] label = "fail_descriptor_set" -> 4
                   [] label = "fail_framebuffer" -> 5
    IN SubSeq(all, first, 5)

\* goto label: the destroy calls from the label on, each with the handle its
\* local holds
Cleanup(it, label) ==
    [it EXCEPT !.calls = @ \o [k \in 1..Len(CleanupFrom(label)) |->
                                 [op |-> "destroy", kind |-> CleanupFrom(label)[k],
                                  handle |-> it[CleanupFrom(label)[k]], i |-> it.i]]]

\* blit_shader, lines 2433-2472: the early returns and the call of
\* get_blit_pipeline, which the recording thread runs
BlitShaderEnter ==
    /\ pc = "blit_shader_enter"
    /\ IF cmd.dst_format \in DepthFormats \/ cmd.type # "2D"
       THEN /\ pc' = AfterBlitShader(FALSE)
            /\ iter' = [iter EXCEPT !.ok = FALSE]
            /\ UNCHANGED callers
       ELSE /\ callers[EncoderThread].pc = "idle"
            /\ pc' = "get_blit_pipeline"
            /\ iter' = iter
            /\ callers' = [callers EXCEPT ![EncoderThread] =
                              [pc |-> "lock_layout", calls |-> @.calls + 1,
                               dst_format |-> cmd.dst_format, pipeline |-> 0,
                               result |-> "none", locks |-> 0, unlocks |-> 0,
                               entry |-> 0]]
    /\ UNCHANGED <<cmd, job, fb, layer, finished>>
    /\ UNCHANGED <<meta, bit>>

\* blit_shader, lines 2472-2483: get_blit_pipeline has returned; without a
\* pipeline blit_shader returns false, with one it pushes the state of the
\* command buffer
BlitShaderPipeline ==
    /\ pc = "get_blit_pipeline"
    /\ callers[EncoderThread].pc = "return"
    /\ callers' = [callers EXCEPT ![EncoderThread].pc = "idle"]
    /\ IF callers[EncoderThread].result = TRUE
       THEN /\ pc' = "loop"
            /\ iter' = [iter EXCEPT !.pushes = @ + 1]
       ELSE /\ pc' = AfterBlitShader(FALSE)
            /\ iter' = [iter EXCEPT !.ok = FALSE]
    /\ UNCHANGED <<cmd, job, fb, layer, finished>>
    /\ UNCHANGED <<meta, bit>>

\* line 2491: the loop condition; after the loop the state is popped
BlitShaderLoop ==
    /\ pc = "loop"
    /\ IF iter.i < cmd.layer_count
       THEN pc' = "dst_image_view" /\ iter' = iter
       ELSE pc' = AfterBlitShader(iter.ok) /\ iter' = [iter EXCEPT !.pops = @ + 1]
    /\ UNCHANGED <<cmd, job, fb, layer, finished>>
    /\ UNCHANGED other_vars

\* lines 2492-2511: the destination image view; a failure leaves the loop
CreateDstImageView ==
    /\ pc = "dst_image_view"
    /\ \E success \in BOOLEAN :
          IF success
          THEN /\ iter' = Created(iter, "dst_image_view", iter.handles + 1)
               /\ pc' = "framebuffer"
          ELSE /\ iter' = [iter EXCEPT !.ok = FALSE, !.pops = @ + 1]
               /\ pc' = AfterBlitShader(FALSE)
    /\ UNCHANGED <<cmd, job, fb, layer, finished>>
    /\ UNCHANGED other_vars

\* lines 2513-2529: the framebuffer
CreateFramebuffer ==
    /\ pc = "framebuffer"
    /\ \E success \in BOOLEAN :
          IF success
          THEN /\ iter' = Created(iter, "fb", iter.handles + 1)
               /\ pc' = "descriptor_set"
          ELSE /\ iter' = Cleanup([iter EXCEPT !.ok = FALSE], "fail_framebuffer")
               /\ pc' = "next_layer"
    /\ UNCHANGED <<cmd, job, fb, layer, finished>>
    /\ UNCHANGED other_vars

\* lines 2531-2543: the descriptor set
AllocateDescriptorSets ==
    /\ pc = "descriptor_set"
    /\ \E success \in BOOLEAN :
          IF success
          THEN /\ iter' = Created(iter, "set", iter.handles + 1)
               /\ pc' = "sampler"
          ELSE /\ iter' = Cleanup([iter EXCEPT !.ok = FALSE], "fail_descriptor_set")
               /\ pc' = "next_layer"
    /\ UNCHANGED <<cmd, job, fb, layer, finished>>
    /\ UNCHANGED other_vars

\* lines 2545-2561: the sampler
CreateSampler ==
    /\ pc = "sampler"
    /\ \E success \in BOOLEAN :
          IF success
          THEN /\ iter' = Created(iter, "sampler", iter.handles + 1)
               /\ pc' = "src_image_view"
          ELSE /\ iter' = Cleanup([iter EXCEPT !.ok = FALSE], "fail_sampler")
               /\ pc' = "next_layer"
    /\ UNCHANGED <<cmd, job, fb, layer, finished>>
    /\ UNCHANGED other_vars

\* lines 2563-2582: the source image view.  When the creation fails the local
\* src_image_view has not been written in this iteration: the handle the
\* label destroys is whatever the stack holds there: null, the handle left
\* by an earlier iteration, any other handle, or a value that is no handle
\* at all (-1).
CreateSrcImageView ==
    /\ pc = "src_image_view"
    /\ \E success \in BOOLEAN :
          IF success
          THEN /\ iter' = Created(iter, "src_image_view", iter.handles + 1)
               /\ pc' = "job"
          ELSE /\ \E h \in (-1)..iter.handles :
                     iter' = Cleanup([iter EXCEPT !.ok = FALSE, !.src_image_view = h],
                                     "fail_src_image_view")
               /\ pc' = "next_layer"
    /\ UNCHANGED <<cmd, job, fb, layer, finished>>
    /\ UNCHANGED other_vars

\* lines 2584-2663: the render pass job; without a job the draw is skipped;
\* with one the draw is recorded and the dynamic state marked dirty; both
\* ways run the labels from fail_job on
BeginRenderPass ==
    /\ pc = "job"
    /\ \E success \in BOOLEAN :
          IF success
          THEN /\ iter' = Cleanup([iter EXCEPT !.dirty_dynamic_state = 1], "fail_job")
               /\ finished' = Append(finished,
                                     [type |-> "blit_draw",
                                      dst_layer |-> cmd.dst_baseArrayLayer + iter.i,
                                      src_layer |-> cmd.src_baseArrayLayer + iter.i])
          ELSE /\ iter' = Cleanup([iter EXCEPT !.ok = FALSE], "fail_job")
               /\ finished' = finished
    /\ pc' = "next_layer"
    /\ UNCHANGED <<cmd, job, fb, layer>>
    /\ UNCHANGED other_vars

\* line 2491: i++ at the end of the loop body, which the labels are part of
BlitShaderNextLayer ==
    /\ pc = "next_layer"
    /\ iter' = [iter EXCEPT !.i = @ + 1]
    /\ pc' = "loop"
    /\ UNCHANGED <<cmd, job, fb, layer, finished>>
    /\ UNCHANGED other_vars

\* the steps of blit_shader
BlitShaderSteps ==
    \/ BlitShaderEnter
    \/ BlitShaderPipeline
    \/ BlitShaderLoop
    \/ CreateDstImageView
    \/ CreateFramebuffer
    \/ AllocateDescriptorSets
    \/ CreateSampler
    \/ CreateSrcImageView
    \/ BeginRenderPass
    \/ BlitShaderNextLayer

\* the steps of get_blit_pipeline a thread takes once it has called it
BlitPipelineSteps(t) ==
    \/ BlitLockLayout(t)
    \/ BlitLayout(t)
    \/ BlitLockCache(t)
    \/ BlitSearch(t)
    \/ BlitHit(t)
    \/ BlitCreate(t)
    \/ BlitInsert(t)
    \/ BlitFail(t)
    \/ BlitDestroy(t)

\* blit_shader on the recording thread, while the other threads call
\* get_blit_pipeline
NextBlitShader ==
    \/ BlitShaderSteps
    \/ \E t \in Threads : BlitPipelineSteps(t)
    \/ \E t \in Threads \ {EncoderThread} : BlitCall(t) \/ BlitReturn(t)

SpecBlitShader == InitBlitShader /\ [][NextBlitShader]_vars

\* v3dv_CmdBlitImage for one region: the transfer unit path, else the shader
\* path
NextBlit ==
    \/ BlitTfu
    \/ BlitShader
    \/ BlitShaderSteps
    \/ BlitPipelineSteps(EncoderThread)

SpecBlit == InitBlit /\ [][NextBlit]_vars

----------------------------------------------------------------------------
(* C39 *)

ReverseSeq(s) == [k \in 1..Len(s) |-> s[Len(s) + 1 - k]]

\* the resources of the calls of one kind made in iteration j, in call
\* order; destroying a null handle destroys nothing
ResourcesOf(op, j) ==
    LET Sel(c) == c.op = op /\ c.i = j /\ c.handle # 0
        sel == SelectSeq(iter.calls, Sel)
    IN [k \in 1..Len(sel) |-> [kind |-> sel[k].kind, handle |-> sel[k].handle]]

\* the iterations whose loop body has been left
IterationsLeft ==
    { j \in 0..iter.i : j < iter.i \/ pc \in {"next_layer", "done", "unsupported_blit"} }

\* whether the blit is in or past the loop of blit_shader
InBlitShader ==
    /\ cmd.kind = "blit_image"
    /\ pc \in {"get_blit_pipeline", "loop", "dst_image_view", "framebuffer",
               "descriptor_set", "sampler", "src_image_view", "job", "next_layer"}
       \/ (pc \in {"done", "unsupported_blit"} /\ iter # IterInit)

\* the pushed meta state is popped exactly once on every exit
PoppedOnce ==
    /\ iter.pops <= iter.pushes
    /\ iter.pushes <= 1
    /\ (pc \in {"done", "unsupported_blit"}) => iter.pops = iter.pushes

\* C39: in the shader blit, for every layer iteration, whichever creation
\* failed or none, exactly the resources created in the iteration are
\* destroyed, each once and in reverse order of acquisition, and nothing that
\* was not created is destroyed; and the meta state pushed before the loop is
\* popped exactly once on every exit.
C39_CleanupLadder ==
    InBlitShader =>
       /\ \A j \in IterationsLeft :
             ResourcesOf("destroy", j) = ReverseSeq(ResourcesOf("create", j))
       /\ PoppedOnce

\* the resources of a sequence of calls
ResourceSet(s) == { s[k] : k \in 1..Len(s) }

\* the part of C39 that does not depend on the order: what an iteration
\* created is what it destroyed, each once
C39_CreatedAreDestroyed ==
    InBlitShader =>
       \A j \in IterationsLeft :
          /\ ResourceSet(ResourcesOf("destroy", j)) = ResourceSet(ResourcesOf("create", j))
          /\ Len(ResourcesOf("destroy", j)) = Len(ResourcesOf("create", j))

\* the part of C39 about the meta state
C39_MetaStatePopped == InBlitShader => PoppedOnce

\* the iterations in which the source image view was created or no later
\* than the sampler failed: what they created is what they destroyed
C39_OtherFailurePoints ==
    InBlitShader =>
       \A j \in IterationsLeft :
          ((\E k \in 1..Len(iter.calls) :
               iter.calls[k].i = j /\ iter.calls[k].op = "create" /\ iter.calls[k].kind = "sampler")
             => (\E k \in 1..Len(iter.calls) :
                   iter.calls[k].i = j /\ iter.calls[k].op = "create"
                      /\ iter.calls[k].kind = "src_image_view"))
          => /\ ResourceSet(ResourcesOf("destroy", j)) = ResourceSet(ResourcesOf("create", j))
             /\ Len(ResourcesOf("destroy", j)) = Len(ResourcesOf("create", j))

----------------------------------------------------------------------------
(* C40 *)

\* a pipeline object is gone: the handles created in it have been destroyed,
\* each once, and the object freed
Gone(p) ==
    /\ p.freed
    /\ p.destroyed = (IF p.pass THEN <<"pass">> ELSE <<>>)
                      \o (IF p.pipeline THEN <<"pipeline">> ELSE <<>>)

\* the pipeline objects the cache refers to
Cached == { meta.cache[k].data : k \in 1..Len(meta.cache) }

\* C40: when the creation of a blit pipeline fails (allocation, render pass
\* or pipeline) nothing is inserted into the cache, what was created is
\* destroyed, the pipeline returned is null, the call returns false and the
\* meta mutex is released; and on every return path each mtx_lock of the call
\* has been followed by exactly one mtx_unlock.
C40_FailureCleansUp ==
    /\ \A k \in 1..Len(meta.pipelines) :
          \/ Gone(meta.pipelines[k]) /\ k \notin Cached
          \/ /\ ~meta.pipelines[k].freed /\ meta.pipelines[k].destroyed = <<>>
             /\ meta.pipelines[k].pass /\ meta.pipelines[k].pipeline
             /\ \/ k \in Cached
                \/ \E t \in Threads : callers[t].pc = "insert" /\ callers[t].pipeline = k
          \/ /\ ~meta.pipelines[k].freed /\ meta.pipelines[k].destroyed = <<>>
             /\ \E t \in Threads : /\ callers[t].pc \in {"fail", "destroy"}
                                   /\ callers[t].pipeline = k
    /\ \A t \in Threads :
          /\ (callers[t].pc = "return" /\ callers[t].result = FALSE) =>
                callers[t].pipeline = 0
          /\ (callers[t].pc = "return" /\ callers[t].result = TRUE) =>
                callers[t].pipeline \in Cached
          /\ callers[t].pc \in {"return", "idle"} =>
                /\ callers[t].unlocks = callers[t].locks
                /\ meta.mtx # t
          /\ callers[t].unlocks <= callers[t].locks
          /\ callers[t].locks <= callers[t].unlocks + 1
          /\ (meta.mtx = t) <=> (callers[t].locks = callers[t].unlocks + 1)

\* a call has returned false after its pipeline creation failed with the
\* render pass created, another thread has a pipeline cached
C40_Witness ==
    \E t \in Threads :
       /\ callers[t].pc = "return" /\ callers[t].result = FALSE
       /\ callers[t].locks = 2 /\ callers[t].unlocks = 2
       /\ \E k \in 1..Len(meta.pipelines) :
             /\ meta.pipelines[k].freed
             /\ meta.pipelines[k].destroyed = <<"pass">>
       /\ Cached # {}

====
